---- MODULE Spec2Model ----
(***************************************************************************)
(* Verification model of the scanner repository:                          *)
(*   - URLStore (url-store.js): the candidate gate, i.e. deduplication of  *)
(*     tested URLs and the per-domain rate limit with cooldown;            *)
(*   - testSQLInjection (sql-injection.js): the exploitation pipeline;     *)
(*   - extractDataFromResponse / extractListFromResponse: marker parsing.  *)
(* Strings whose content matters (response bodies, schema names) are       *)
(* sequences of one-character strings; URLs are records of their parsed    *)
(* components.                                                             *)
(***************************************************************************)
EXTENDS Integers, Sequences, FiniteSets, TLC

\* ------------------------------------------------------------------ bounds
MaxM == 2             \* maxPathsPerDomain ranges over 1..MaxM
CooldownTicks == 2    \* cooldownPeriod, in clock ticks
NumPayloads == 2      \* payloads recordable for a vulnerable URL
MaxBodyLen == 5        \* longest response body given to the extractors
MaxParams == 2             \* query parameters of a scanned URL: 0..MaxParams
NumDetectionPayloads == 2  \* length of DETECTION_PAYLOADS
NumColumnPayloads == 2     \* length of COLUMN_PAYLOADS
MaxWrites == 2
NumDorks == 2
MaxPages == 2
MaxUrls == 2
NumPaths == MaxM + 1
MaxTime == CooldownTicks + 1

\* ------------------------------------------------------------------ maps
EmptyMap == [x \in {} |-> 0]
MapSet(m, k, v) == [x \in (DOMAIN m) \cup {k} |-> IF x = k THEN v ELSE m[x]]
MapDelete(m, ks) == [x \in (DOMAIN m) \ ks |-> m[x]]
SeqElems(s) == {s[i] : i \in 1..Len(s)}
NoRepeat(s) == \A i, j \in 1..Len(s) : s[i] = s[j] => i = j

\* ------------------------------------------------------------------ strings
\* A string is a sequence of one-character strings.
Contains(s, sub) ==
  \E i \in 1..(Len(s) - Len(sub) + 1) : SubSeq(s, i, i + Len(sub) - 1) = sub

\* The characters of the class [a-zA-Z0-9_.-].
TokenChars ==
  {"a", "b", "c", "d", "e", "f", "g", "h", "i", "j", "k", "l", "m", "n",
   "o", "p", "q", "r", "s", "t", "u", "v", "w", "x", "y", "z", "A", "B",
   "C", "D", "E", "F", "G", "H", "I", "J", "K", "L", "M", "N", "O", "P",
   "Q", "R", "S", "T", "U", "V", "W", "X", "Y", "Z", "0", "1", "2", "3",
   "4", "5", "6", "7", "8", "9", "_", ".", "-"}

\* ---- /([a-zA-Z0-9_.-]+)::/
\* The ends k of the matches that start at s: text[s..k] are token characters
\* and "::" follows.
MatchEnds(text, s) ==
  {k \in s..(Len(text) - 2) :
     /\ \A i \in s..k : text[i] \in TokenChars
     /\ text[k + 1] = ":" /\ text[k + 2] = ":"}

Max(S) == CHOOSE x \in S : \A y \in S : y <= x
Min(S) == CHOOSE x \in S : \A y \in S : x <= y

\* The starts at or after `from` where the expression matches.
MatchStarts(text, from) == {s \in from..Len(text) : MatchEnds(text, s) # {}}

Null == [found |-> FALSE, value |-> <<>>]
Found(value) == [found |-> TRUE, value |-> value]

\* A slip: the group without its +, which captures one character.
extractDataOneChar(responseText) ==
  IF MatchStarts(responseText, 1) = {}
    THEN Null
    ELSE LET k == Max(MatchEnds(responseText, Min(MatchStarts(responseText, 1))))
         IN  Found(SubSeq(responseText, k, k))

\* The first match (leftmost start, greedy group), group 1 of it.
extractDataFromResponse(responseText) ==
  IF MatchStarts(responseText, 1) = {}
    THEN Null
    ELSE LET s == Min(MatchStarts(responseText, 1))
         IN  Found(SubSeq(responseText, s, Max(MatchEnds(responseText, s))))

\* The /g matches from `from` on, left to right, not overlapping; each match
\* with its "::" removed (a token is never empty or blank, so the trailing
\* filter keeps all of them).
RECURSIVE MatchAll(_, _)
MatchAll(text, from) ==
  IF MatchStarts(text, from) = {}
    THEN <<>>
    ELSE LET s == Min(MatchStarts(text, from))
             k == Max(MatchEnds(text, s))
         IN  <<SubSeq(text, s, k)>> \o MatchAll(text, k + 3)

extractListFromResponse(responseText) == MatchAll(responseText, 1)

\* ---- String.prototype.toLowerCase
UpperCase ==
  <<"A", "B", "C", "D", "E", "F", "G", "H", "I", "J", "K", "L", "M", "N",
    "O", "P", "Q", "R", "S", "T", "U", "V", "W", "X", "Y", "Z">>
LowerCase ==
  <<"a", "b", "c", "d", "e", "f", "g", "h", "i", "j", "k", "l", "m", "n",
    "o", "p", "q", "r", "s", "t", "u", "v", "w", "x", "y", "z">>
toLowerCase(s) ==
  [i \in 1..Len(s) |->
     IF \E k \in 1..Len(UpperCase) : UpperCase[k] = s[i]
       THEN LowerCase[CHOOSE k \in 1..Len(UpperCase) : UpperCase[k] = s[i]]
       ELSE s[i]]

\* ---- String.prototype.trim
WhiteSpace == {" ", "\t", "\n", "\r"}
Trim(s) ==
  LET kept == {i \in 1..Len(s) : s[i] \notin WhiteSpace}
  IN  IF kept = {} THEN <<>> ELSE SubSeq(s, Min(kept), Max(kept))

\* payload.replace(/[\r\n;]/g, '').trim(); the payloads of the model are all
\* shorter than maxPayloadLength, so the length test never throws.
StrippedChars == {"\r", "\n", ";"}
IsKept(c) == c \notin StrippedChars
sanitizePayload(payload) == Trim(SelectSeq(payload, IsKept))

\* col.split('.').pop()
LastSegment(s) ==
  LET dots == {i \in 1..Len(s) : s[i] = "."}
  IN  IF dots = {} THEN s ELSE SubSeq(s, Max(dots) + 1, Len(s))

Marker == <<":", ":">>
RECURSIVE Marked(_)
Marked(names) ==
  IF names = <<>> THEN <<>> ELSE Head(names) \o Marker \o Marked(Tail(names))

\* ---- the strings of the model
Str_sql == <<"s", "q", "l">>
Str_error == <<"e", "r", "r", "o", "r">>
Str_syntax == <<"s", "y", "n", "t", "a", "x">>
Str_information_schema == <<"i", "n", "f", "o", "r", "m", "a", "t", "i", "o", "n", "_", "s", "c", "h", "e", "m", "a">>
Str_mysql == <<"m", "y", "s", "q", "l">>
Str_mysql_app == <<"m", "y", "s", "q", "l", "_", "a", "p", "p">>
Str_mydb == <<"m", "y", "d", "b">>
Str_shop == <<"s", "h", "o", "p">>
Str_users == <<"u", "s", "e", "r", "s">>
Str_user == <<"u", "s", "e", "r">>
Str_logs == <<"l", "o", "g", "s">>
Str_id == <<"i", "d">>
Str_r == <<"r">>
Str_s == <<"s">>
Str_v == <<"v">>
BodySQL == <<"S", "Q", "L">>
BodyError == <<"E", "r", "r", "o", "r">>
BodyClean == <<"o", "k">>
BodyEmpty == <<>>

\* ------------------------------------------------------------------ URLs
\* A URL string, by the components `new URL(url)` gives it; ok = FALSE is a
\* string the URL constructor rejects.
U(scheme, host, path, query) ==
  [ok |-> TRUE, scheme |-> scheme, host |-> host, path |-> path, query |-> query]
Malformed == [ok |-> FALSE, scheme |-> "", host |-> "", path |-> 0, query |-> <<>>]
Param(name, value) == [name |-> name, value |-> value]

QId1 == <<Param("id", "1")>>
QId2 == <<Param("id", "2")>>
QId1Utm == <<Param("id", "1"), Param("utm_source", "x")>>
QId2Ref == <<Param("ref", "y"), Param("id", "2"), Param("fbclid", "z")>>

\* The URLs the gate is called with.
Urls ==
  {U("https", "a.com", i, QId1) : i \in 1..NumPaths}
    \cup {U("https", "a.com", 1, QId1Utm), U("https", "b.com", 1, QId1), Malformed}

\* The URLs normalizeUrl is evaluated on.
AllUrls ==
  Urls \cup {U("https", "a.com", 1, QId2), U("https", "a.com", 1, QId2Ref),
             U("http", "a.com", 1, QId1), U("https", "a.com", 1, <<>>)}

RecordUrls == {U("https", "a.com", 1, QId1), U("https", "a.com", 1, QId1Utm)}
Payloads == 1..NumPayloads

TrackingParams == {"utm_source", "utm_medium", "utm_campaign", "ref", "fbclid"}

SearchParamsDelete(query, names) ==
  SelectSeq(query, LAMBDA p : p.name \notin names)

\* urlObj.origin + urlObj.pathname: the string without its query.
OriginPlusPathname(urlObj) == [urlObj EXCEPT !.query = <<>>]

\* A slip that would return the whole stripped URL instead of origin + path.
NormalizeUrlHref(url) ==
  IF url.ok
    THEN [url EXCEPT !.query = SearchParamsDelete(url.query, TrackingParams)]
    ELSE url

NormalizeUrl(url) ==
  IF url.ok
    THEN OriginPlusPathname(
           [url EXCEPT !.query = SearchParamsDelete(url.query, TrackingParams)])
    ELSE url

NoDomain == ""
\* A slip that would take the domain from the text of an unparseable string.
extractDomainText(url) == url.host

extractDomain(url) == IF url.ok THEN url.host ELSE NoDomain
GetDomain(url) == extractDomain(url)

\* ------------------------------------------------------------------ state
VARIABLES
  config,          \* URLStore.config: maxPathsPerDomain, cooldownPeriod
  testedUrls,      \* Set of normalized URLs
  vulnerableUrls,  \* Map normalized URL -> sequence of payloads
  seenDomains,     \* Map domain -> Set of paths
  lastTestedTime,  \* Map domain -> time
  stateFile,       \* the snapshot last handed to fs.writeFile by saveState
  now,             \* Date.now()
  ret,             \* the last URLStore call and what it returned
  pending,         \* the URL isUrlTested has just admitted, not yet marked
  committed,       \* history: normalized URLs markUrlAsTested was called with
  disciplined,     \* history: every markUrlAsTested so far directly followed
                   \* a successful isUrlTested of the same URL
  rate,            \* the submissions of the rate-limit scenario (SpecRate)
  pair,            \* the two URLs of the normalization scenario (SpecNorm)
  body,            \* a response body (SpecParse)
  parsed,          \* what the extractors return for it
  target,          \* the url argument: whether new URL(url) parses, and the
                   \* number of its query parameters
  scanConfig,      \* { ...SCAN_CONFIG, ...config }
  transport,       \* the outcomes the remote end can give to each kind of request
  pc,              \* where testSQLInjection stands
  cursor,          \* testBasicVulnerability / findColumnCount: payload, param
  columnCount,     \* const columnCount
  result,          \* const result
  sys,             \* extractSystemInfo: key, param
  schema,          \* extractDatabaseSchemas: param
  dbs,             \* one extractDatabaseStructure per database, in call order
  dump,            \* dumpAllTables: its limiter
  saves,           \* file writes under way
  schemaSeen,      \* history: the names the schema responses listed
  probes,          \* history: the detection requests answered, in order
  call,            \* the arguments of the last addVulnerableUrl (SpecIndex)
  disk,            \* what the state file holds
  writes,          \* the fs.writeFile calls of saveState under way
  loading,         \* loadState: its fs.readFile is under way
  loop             \* main: its entry point, dork, URL list and position

gateVars == <<config, testedUrls, vulnerableUrls, seenDomains, lastTestedTime,
              stateFile, now, ret, pending, committed, disciplined>>
parseVars == <<body, parsed>>
scanInputs == <<target, scanConfig, transport>>
scanState == <<pc, cursor, columnCount, result, sys, schema, dbs, dump, saves,
               schemaSeen, probes>>
scanVars == <<scanInputs, scanState>>
extraVars == <<call, disk, writes, loading, loop>>
vars == <<gateVars, rate, pair, parseVars, scanVars, extraVars>>

StartTime == CooldownTicks

NoFile == [written |-> FALSE]
Snapshot(t, v, s, l) ==
  [written |-> TRUE, testedUrls |-> t, vulnerableUrls |-> v,
   seenDomains |-> s, lastTestedTime |-> l]

NoStats ==
  [totalTested |-> -1, totalVulnerable |-> -1, uniqueDomains |-> -1,
   recentlyTestedDomains |-> -1]
NoRate == [outcomes |-> <<>>, commitAt |-> -1]
NoPair == [first |-> Malformed, second |-> Malformed, step |-> "off"]

\* The store after construction, its state file not existing yet.
GateInit ==
  /\ config \in [maxPathsPerDomain : 1..MaxM, cooldownPeriod : {CooldownTicks}]
  /\ testedUrls = {}
  /\ vulnerableUrls = EmptyMap
  /\ seenDomains = EmptyMap
  /\ lastTestedTime = EmptyMap
  /\ stateFile = NoFile
  /\ now = StartTime
  /\ ret = [op |-> "new", value |-> FALSE, stats |-> NoStats]
  /\ pending = {}
  /\ committed = {}
  /\ disciplined = TRUE

\* ================================================================== scan
\* testSQLInjection (sql-injection.js). One action per completion the event
\* loop delivers to the scan (a response, a failed request, a timer, a file
\* write); each action runs the continuation up to the next await of every
\* promise chain it resolves.

\* SCAN_CONFIG
SCAN_CONFIG == [requestDelay |-> 100, maxConcurrency |-> 3, maxPayloadLength |-> 1000]
Concurrencies == {1, SCAN_CONFIG.maxConcurrency}

\* ---- the payload catalog (config.js); the text of a payload is abstracted
\* to a tag, the characters sanitizePayload removes, and, for a UNION probe,
\* one N per null column.
Digits == <<"0", "1", "2", "3", "4", "5", "6", "7", "8", "9">>
DETECTION_PAYLOADS ==
  [i \in 1..NumDetectionPayloads |->
     <<"D", Digits[i + 1]>> \o (IF i % 2 = 0 THEN <<";", " ">> ELSE <<>>)]

RECURSIVE Nulls(_)
Nulls(n) ==
  IF n <= 0 THEN <<>>
  ELSE IF n = 1 THEN <<"N">>
  ELSE Nulls(n - 1) \o <<",", "N">>

COLUMN_PAYLOADS == [i \in 1..NumColumnPayloads |-> <<"U", " ">> \o Nulls(i) \o <<";">>]

\* The number of columns of a UNION probe.
Arity(payload) == Cardinality({i \in 1..Len(payload) : payload[i] = "N"})

\* ---- the transport: what a request can come back with
Response(text) == [ok |-> TRUE, body |-> text]
Failure == [ok |-> FALSE, body |-> <<>>]

\* A response body carries the error signature: "error" in any letter case.
SameLetter(c, lower) ==
  c = lower \/ \E k \in 1..Len(UpperCase) : UpperCase[k] = c /\ LowerCase[k] = lower
ErrorSignature(text) ==
  \E i \in 1..(Len(text) - Len(Str_error) + 1) :
    \A k \in 1..Len(Str_error) : SameLetter(text[i + k - 1], Str_error[k])


NoTarget == [valid |-> FALSE, params |-> 0]
Targets == {NoTarget} \cup {[valid |-> TRUE, params |-> p] : p \in 0..MaxParams}
validateUrlAlways(url) == TRUE
validateUrl(url) == url.valid

NoTransport ==
  [detect |-> {}, threshold |-> 0, column |-> {}, sysinfo |-> {}, schema |-> {},
   tables |-> {}, cols |-> {}, dump |-> {}, lost |-> {}, save |-> {}]

\* With a threshold k > 0 the transport answers a UNION probe of N columns
\* with the error signature exactly when N < k.
ColumnOutcomes(payload) ==
  IF transport.threshold = 0
    THEN transport.column
    ELSE {o \in transport.column :
            o.ok => (ErrorSignature(o.body) <=> Arity(payload) < transport.threshold)}

NoCount == 0 - 1
NoCursor == [i |-> 0, j |-> 0, wait |-> "off"]
SysKeys == <<"version", "user", "currentDb">>
NewResult ==
  [vulnerable |-> FALSE, columns |-> <<>>, tables |-> <<>>, databases |-> <<>>,
   tableData |-> EmptyMap,
   databaseInfo |-> [version |-> Null, user |-> Null, currentDb |-> Null],
   successfulPayloads |-> <<>>]
\* sent: history, the dump probes sent so far
NoDump == [st |-> "off", queue |-> <<>>, active |-> {}, sent |-> {}]

ScanIdle ==
  /\ pc = "idle"
  /\ cursor = NoCursor
  /\ columnCount = NoCount
  /\ result = NewResult
  /\ sys = NoCursor
  /\ schema = NoCursor
  /\ dbs = <<>>
  /\ dump = NoDump
  /\ saves = {}
  /\ schemaSeen = {}
  /\ probes = <<>>

ScanOff ==
  /\ target = NoTarget
  /\ scanConfig = SCAN_CONFIG
  /\ transport = NoTransport
  /\ ScanIdle

NotParsed == [done |-> FALSE, data |-> Null, list |-> <<>>]
ParseOff == body = <<>> /\ parsed = NotParsed

NoCall == [made |-> FALSE, url |-> Malformed, payload |-> 0]
NoSearch ==
  [st |-> "off", maxPages |-> 0, retries |-> 0, page |-> 0, allUrls |-> <<>>,
   k |-> 0, uniqueUrls |-> <<>>, failed |-> 0, waited |-> <<>>, before |-> {}]
NoLoop ==
  [entry |-> "off", at |-> "off", dork |-> 0, urls |-> <<>>, i |-> 0,
   found |-> <<>>, invoked |-> <<>>, logged |-> 0,
   tested |-> <<>>, vulnerable |-> {}, search |-> NoSearch]
StoreOff ==
  /\ call = NoCall
  /\ disk = NoFile
  /\ writes = <<>>
  /\ loading = FALSE
ExtraOff == StoreOff /\ loop = NoLoop

Init ==
  GateInit /\ rate = NoRate /\ pair = NoPair /\ ParseOff /\ ScanOff /\ ExtraOff

\* ------------------------------------------------------------------ gate
\* lastTestedTime.get(domain) || 0
LastTest(domain) ==
  IF domain \in DOMAIN lastTestedTime THEN lastTestedTime[domain] ELSE 0

DomainFullGt(paths) == Cardinality(paths) > config.maxPathsPerDomain
DomainFull(paths) == Cardinality(paths) >= config.maxPathsPerDomain

InCooldownLe(domain) == now - LastTest(domain) <= config.cooldownPeriod
InCooldown(domain) == now - LastTest(domain) < config.cooldownPeriod

\* A slip that would look the raw URL up instead of its normalized form.
AlreadyTestedRaw(url) == url \in testedUrls
AlreadyTested(url) == NormalizeUrl(url) \in testedUrls

DomainKnown(url) ==
  GetDomain(url) # NoDomain /\ GetDomain(url) \in DOMAIN seenDomains

RateLimited(url) ==
  /\ ~AlreadyTested(url)
  /\ DomainKnown(url)
  /\ DomainFull(seenDomains[GetDomain(url)])
  /\ InCooldown(GetDomain(url))

CooldownResetWhenFull(url) ==
  /\ ~AlreadyTested(url)
  /\ DomainKnown(url)
  /\ DomainFull(seenDomains[GetDomain(url)])

CooldownReset(url) ==
  /\ ~AlreadyTested(url)
  /\ DomainKnown(url)
  /\ DomainFull(seenDomains[GetDomain(url)])
  /\ ~InCooldown(GetDomain(url))

\* What isUrlTested(url) returns in the current state.
IsUrlTestedResult(url) == AlreadyTested(url) \/ RateLimited(url)

PathsAfterResetKept(paths) == paths
PathsAfterReset(paths) == {}

isUrlTested(url) ==
  /\ ret' = [op |-> "isUrlTested", value |-> IsUrlTestedResult(url), stats |-> NoStats]
  /\ pending' = IF IsUrlTestedResult(url) THEN {} ELSE {url}
  /\ IF CooldownReset(url)
       THEN /\ seenDomains' =
                 [seenDomains EXCEPT
                    ![GetDomain(url)] = PathsAfterReset(seenDomains[GetDomain(url)])]
            /\ lastTestedTime' = MapSet(lastTestedTime, GetDomain(url), now)
       ELSE UNCHANGED <<seenDomains, lastTestedTime>>
  /\ UNCHANGED <<config, testedUrls, vulnerableUrls, stateFile, now,
                 committed, disciplined>>

PathsOf(domain) ==
  IF domain \in DOMAIN seenDomains THEN seenDomains[domain] ELSE {}

markUrlAsTested(url) ==
  /\ testedUrls' = testedUrls \cup {NormalizeUrl(url)}
  /\ IF GetDomain(url) # NoDomain
       THEN /\ seenDomains' =
                 MapSet(seenDomains, GetDomain(url),
                        PathsOf(GetDomain(url)) \cup {url.path})
            /\ lastTestedTime' = MapSet(lastTestedTime, GetDomain(url), now)
            /\ stateFile' =
                 Snapshot(testedUrls', vulnerableUrls, seenDomains', lastTestedTime')
       ELSE UNCHANGED <<seenDomains, lastTestedTime, stateFile>>
  /\ ret' = [op |-> "markUrlAsTested", value |-> FALSE, stats |-> NoStats]
  /\ pending' = {}
  /\ committed' = committed \cup {NormalizeUrl(url)}
  /\ disciplined' = (disciplined /\ pending = {url})
  /\ UNCHANGED <<config, vulnerableUrls, now>>

\* A slip that would start a fresh list at every call.
PayloadsOfFresh(normalizedUrl) == <<>>

PayloadsOf(normalizedUrl) ==
  IF normalizedUrl \in DOMAIN vulnerableUrls
    THEN vulnerableUrls[normalizedUrl] ELSE <<>>

addVulnerableUrl(url, payload) ==
  /\ IF payload \notin SeqElems(PayloadsOf(NormalizeUrl(url)))
       THEN /\ vulnerableUrls' =
                 MapSet(vulnerableUrls, NormalizeUrl(url),
                        Append(PayloadsOf(NormalizeUrl(url)), payload))
            /\ stateFile' =
                 Snapshot(testedUrls, vulnerableUrls', seenDomains, lastTestedTime)
       ELSE UNCHANGED <<vulnerableUrls, stateFile>>
  /\ ret' = [op |-> "addVulnerableUrl", value |-> FALSE, stats |-> NoStats]
  /\ pending' = {}
  /\ UNCHANGED <<config, testedUrls, seenDomains, lastTestedTime, now,
                 committed, disciplined>>

Stats ==
  [totalTested |-> Cardinality(testedUrls),
   totalVulnerable |-> Cardinality(DOMAIN vulnerableUrls),
   uniqueDomains |-> Cardinality(DOMAIN seenDomains),
   recentlyTestedDomains |->
     Cardinality({d \in DOMAIN lastTestedTime :
                    now - lastTestedTime[d] < config.cooldownPeriod})]

getStats ==
  /\ ret' = [op |-> "getStats", value |-> FALSE, stats |-> Stats]
  /\ pending' = {}
  /\ UNCHANGED <<config, testedUrls, vulnerableUrls, seenDomains, lastTestedTime,
                 stateFile, now, committed, disciplined>>

OldDomainsGe ==
  {d \in DOMAIN lastTestedTime : now - lastTestedTime[d] >= config.cooldownPeriod}
OldDomains ==
  {d \in DOMAIN lastTestedTime : now - lastTestedTime[d] > config.cooldownPeriod}

\* A slip that would forget a domain's cooldown stamp and keep its paths.
cleanupKeepsPaths ==
  /\ lastTestedTime' = MapDelete(lastTestedTime, OldDomains)
  /\ seenDomains' = seenDomains
  /\ stateFile' =
       Snapshot(testedUrls, vulnerableUrls, seenDomains', lastTestedTime')
  /\ ret' = [op |-> "cleanupOldEntries", value |-> FALSE, stats |-> NoStats]
  /\ pending' = {}
  /\ UNCHANGED <<config, testedUrls, vulnerableUrls, now, committed, disciplined>>

cleanupOldEntries ==
  /\ lastTestedTime' = MapDelete(lastTestedTime, OldDomains)
  /\ seenDomains' = MapDelete(seenDomains, OldDomains)
  /\ stateFile' =
       Snapshot(testedUrls, vulnerableUrls, seenDomains', lastTestedTime')
  /\ ret' = [op |-> "cleanupOldEntries", value |-> FALSE, stats |-> NoStats]
  /\ pending' = {}
  /\ UNCHANGED <<config, testedUrls, vulnerableUrls, now, committed, disciplined>>

\* Date.now() advances between calls.
ClockAdvances ==
  /\ now < StartTime + MaxTime
  /\ now' = now + 1
  /\ UNCHANGED <<config, testedUrls, vulnerableUrls, seenDomains, lastTestedTime,
                 stateFile, ret, pending, committed, disciplined>>

\* ---- Spec: the store under any sequence of calls
Admit(url) == isUrlTested(url) /\ UNCHANGED <<rate, pair, parseVars, scanVars, extraVars>>
Commit(url) == markUrlAsTested(url) /\ UNCHANGED <<rate, pair, parseVars, scanVars, extraVars>>
RecordSuccess(url, payload) == addVulnerableUrl(url, payload) /\ UNCHANGED <<rate, pair, parseVars, scanVars, extraVars>>
GetStats == getStats /\ UNCHANGED <<rate, pair, parseVars, scanVars, extraVars>>
Cleanup == cleanupOldEntries /\ UNCHANGED <<rate, pair, parseVars, scanVars, extraVars>>
Tick == ClockAdvances /\ UNCHANGED <<rate, pair, parseVars, scanVars, extraVars>>

Next ==
  \/ \E url \in Urls : Admit(url)
  \/ \E url \in Urls : Commit(url)
  \/ \E url \in RecordUrls, payload \in Payloads : RecordSuccess(url, payload)
  \/ GetStats
  \/ Cleanup
  \/ Tick

Spec == Init /\ [][Next]_vars

\* ---- SpecRate: URLs of one domain, pairwise distinct paths, submitted one
\* after another (admit, then commit if admitted), each submission made while
\* less than cooldownPeriod has elapsed since the previous commit.
RateDomain == "a.com"
RateUrls == {u \in Urls : u.ok /\ u.host = RateDomain}
SubmittedPaths == {rate.outcomes[i].path : i \in 1..Len(rate.outcomes)}

RateAdmit(url) ==
  /\ pending = {}
  /\ url.path \notin SubmittedPaths
  /\ rate.commitAt >= 0 => now - rate.commitAt < config.cooldownPeriod
  /\ isUrlTested(url)
  /\ rate' = [rate EXCEPT
                !.outcomes = Append(@, [path |-> url.path, admitted |-> ~ret'.value])]
  /\ UNCHANGED <<pair, parseVars, scanVars, extraVars>>

RateCommit ==
  /\ \E url \in pending : markUrlAsTested(url)
  /\ rate' = [rate EXCEPT !.commitAt = now]
  /\ UNCHANGED <<pair, parseVars, scanVars, extraVars>>

RateTick == pending = {} /\ ClockAdvances /\ UNCHANGED <<rate, pair, parseVars, scanVars, extraVars>>

NextRate ==
  \/ \E url \in RateUrls : RateAdmit(url)
  \/ RateCommit
  \/ RateTick

SpecRate == Init /\ [][NextRate]_vars

\* ---- SpecNorm: commit one URL, then ask for another one
PairInit ==
  /\ GateInit
  /\ rate = NoRate
  /\ ParseOff
  /\ ScanOff
  /\ ExtraOff
  /\ pair \in [first : AllUrls, second : AllUrls, step : {"commit"}]

PairCommit ==
  /\ pair.step = "commit"
  /\ markUrlAsTested(pair.first)
  /\ pair' = [pair EXCEPT !.step = "admit"]
  /\ UNCHANGED <<rate, parseVars, scanVars, extraVars>>

PairAdmit ==
  /\ pair.step = "admit"
  /\ isUrlTested(pair.second)
  /\ pair' = [pair EXCEPT !.step = "done"]
  /\ UNCHANGED <<rate, parseVars, scanVars, extraVars>>

PairTick == pair.step = "admit" /\ ClockAdvances /\ UNCHANGED <<rate, pair, parseVars, scanVars, extraVars>>

NextNorm == PairCommit \/ PairAdmit \/ PairTick

SpecNorm == PairInit /\ [][NextNorm]_vars

\* ---- SpecIndex: recordSuccess calls, with their arguments kept, between
\* commits and cleanups
IndexUrls == RecordUrls \cup {U("https", "b.com", 1, QId1), Malformed}

IndexRecord(url, payload) ==
  /\ addVulnerableUrl(url, payload)
  /\ call' = [made |-> TRUE, url |-> url, payload |-> payload]
  /\ UNCHANGED <<rate, pair, parseVars, scanVars, disk, writes, loading, loop>>

NextIndex ==
  \/ \E url \in IndexUrls, payload \in Payloads : IndexRecord(url, payload)
  \/ \E url \in RecordUrls : Commit(url)
  \/ Cleanup

SpecIndex == Init /\ [][NextIndex]_vars

\* ---- the state file
\* A JSON value of a snapshot field: the collection saveState wrote, a missing
\* member, a number, or (seenDomains) an object whose members are numbers.
Val(v) == [type |-> "ok", value |-> v]
Undefined == [type |-> "undefined"]
Number == [type |-> "number"]
Numbers == [type |-> "numbers"]
NotJson == [written |-> TRUE, json |-> FALSE]

\* JSON.stringify(state, null, 2)
JSONstringify(state) ==
  [written |-> TRUE, json |-> TRUE,
   testedUrls |-> Val(state.testedUrls),
   vulnerableUrls |-> Val(state.vulnerableUrls),
   seenDomains |-> Val(state.seenDomains),
   lastTestedTime |-> Val(state.lastTestedTime)]

Memory ==
  [testedUrls |-> testedUrls, vulnerableUrls |-> vulnerableUrls,
   seenDomains |-> seenDomains, lastTestedTime |-> lastTestedTime]
EmptyMemory ==
  [testedUrls |-> {}, vulnerableUrls |-> EmptyMap, seenDomains |-> EmptyMap,
   lastTestedTime |-> EmptyMap]
SetMemory(m) ==
  /\ testedUrls' = m.testedUrls
  /\ vulnerableUrls' = m.vulnerableUrls
  /\ seenDomains' = m.seenDomains
  /\ lastTestedTime' = m.lastTestedTime

\* saveState: the snapshot goes to fs.writeFile, which settles later.
Saved(called) ==
  /\ called => Len(writes) < MaxWrites
  /\ writes' = IF called THEN Append(writes, stateFile') ELSE writes
  /\ UNCHANGED <<rate, pair, parseVars, scanVars, call, disk, loading, loop>>

PersistCommit(url) == markUrlAsTested(url) /\ Saved(GetDomain(url) # NoDomain)
PersistRecord(url, payload) ==
  /\ addVulnerableUrl(url, payload)
  /\ Saved(payload \notin SeqElems(PayloadsOf(NormalizeUrl(url))))
PersistCleanup == cleanupOldEntries /\ Saved(TRUE)

\* A slip that would drop what the store holds when the write fails.
saveStateCatchResets(m) ==
  [m EXCEPT !.testedUrls = {}, !.vulnerableUrls = EmptyMap]

\* saveState: catch (error) { log(...) }
saveStateCatch(m) == m

\* A write that fails leaves the file as it was, or cut short.
WriteOutcomes == {"written", "failed", "partial"}
Without(seq, i) == SubSeq(seq, 1, i - 1) \o SubSeq(seq, i + 1, Len(seq))

WriteSettles ==
  \E i \in 1..Len(writes), outcome \in WriteOutcomes :
    /\ writes' = Without(writes, i)
    /\ disk' = CASE outcome = "written" -> JSONstringify(writes[i])
                 [] outcome = "failed" -> disk
                 [] outcome = "partial" -> NotJson
    /\ SetMemory(IF outcome = "written" THEN Memory ELSE saveStateCatch(Memory))
    /\ UNCHANGED <<config, stateFile, now, ret, pending, committed, disciplined>>
    /\ UNCHANGED <<rate, pair, parseVars, scanVars, call, loading, loop>>

\* ---- SpecPersist: the gate with its state-file writes
PersistUrls == RecordUrls \cup {U("https", "b.com", 1, QId1)}

NextPersist ==
  \/ \E url \in PersistUrls : Admit(url)
  \/ \E url \in PersistUrls : PersistCommit(url)
  \/ \E url \in RecordUrls, payload \in Payloads : PersistRecord(url, payload)
  \/ PersistCleanup
  \/ WriteSettles

SpecPersist == Init /\ [][NextPersist]_vars

\* ---- SpecWrites: the gate with its state-file writes, a clock, and a string
\* the URL constructor rejects among the URLs committed
AdmitUrls == {U("https", "a.com", 1, QId1), U("https", "a.com", 2, QId1)}
WriteUrls == {U("https", "a.com", 1, QId1), Malformed}

NextWrites ==
  \/ \E url \in AdmitUrls : Admit(url)
  \/ \E url \in WriteUrls : PersistCommit(url)
  \/ PersistRecord(U("https", "a.com", 1, QId1), 1)
  \/ PersistCleanup
  \/ WriteSettles
  \/ Tick

SpecWrites == Init /\ [][NextWrites]_vars

\* ---- SpecRace: every mutation is followed by saveState, every write
\* succeeds, and the pending writes land in any order
WriteLands ==
  \E i \in 1..Len(writes) :
    /\ writes' = Without(writes, i)
    /\ disk' = JSONstringify(writes[i])
    /\ UNCHANGED gateVars
    /\ UNCHANGED <<rate, pair, parseVars, scanVars, call, loading, loop>>

NextRace ==
  \/ \E url \in PersistUrls : PersistCommit(url)
  \/ PersistRecord(U("https", "a.com", 1, QId1), 1)
  \/ PersistCleanup
  \/ WriteLands
  \/ Tick

SpecRace == Init /\ [][NextRace]_vars

\* ---- SpecMalformed: the gate called with strings the URL constructor
\* rejects, one of them the text of a domain without a scheme
Schemeless == [Malformed EXCEPT !.host = "a.com"]
MalformedUrls == {Malformed, Schemeless}
GateCallUrls ==
  MalformedUrls \cup {U("https", "a.com", i, QId1) : i \in 1..NumPaths}

Called(url) ==
  /\ call' = [made |-> TRUE, url |-> url, payload |-> 0]
  /\ UNCHANGED <<rate, pair, parseVars, scanVars, disk, writes, loading, loop>>

CallAdmit(url) == isUrlTested(url) /\ Called(url)
CallCommit(url) == markUrlAsTested(url) /\ Called(url)

NextMalformed ==
  \/ \E url \in GateCallUrls : CallAdmit(url)
  \/ \E url \in GateCallUrls : CallCommit(url)
  \/ Tick

SpecMalformed == Init /\ [][NextMalformed]_vars

\* ---- loadState (lines 218-235)
\* state.member || fallback
OrElse(member, fallback) == IF member.type = "ok" THEN member.value ELSE fallback

\* The four assignments in their order. new Set(x) throws for a number (a
\* testedUrls member, a value of seenDomains) while Object.entries(x) of a
\* number is empty; an exception leaves the later assignments undone and ends
\* in the catch, which logs.
loadStateNoTimes(file, m) ==
  IF ~file.written \/ ~file.json THEN m
  ELSE IF file.testedUrls.type = "number" THEN m
  ELSE
    LET first == [m EXCEPT !.testedUrls = OrElse(file.testedUrls, {})]
        second == [first EXCEPT !.vulnerableUrls = OrElse(file.vulnerableUrls, EmptyMap)]
        third == [second EXCEPT !.seenDomains = OrElse(file.seenDomains, EmptyMap)]
    IN  IF file.seenDomains.type = "numbers" THEN second ELSE third
loadState(file, m) ==
  IF ~file.written \/ ~file.json THEN m
  ELSE IF file.testedUrls.type = "number" THEN m
  ELSE
    LET first == [m EXCEPT !.testedUrls = OrElse(file.testedUrls, {})]
        second == [first EXCEPT !.vulnerableUrls = OrElse(file.vulnerableUrls, EmptyMap)]
        third == [second EXCEPT !.seenDomains = OrElse(file.seenDomains, EmptyMap)]
        fourth == [third EXCEPT !.lastTestedTime = OrElse(file.lastTestedTime, EmptyMap)]
    IN  IF file.seenDomains.type = "numbers" THEN second ELSE fourth

\* fs.readFile settles and loadState runs to its end.
LoadSettles ==
  /\ loading
  /\ loading' = FALSE
  /\ SetMemory(loadState(disk, Memory))
  /\ UNCHANGED <<config, stateFile, now, ret, pending, committed, disciplined>>
  /\ UNCHANGED <<rate, pair, parseVars, scanVars, call, disk, writes, loop>>

\* ---- SpecLoad: a store constructed over a state file of any content
FileUrl == NormalizeUrl(U("https", "a.com", 1, QId1))
FileContents ==
  {NoFile, NotJson}
    \cup [written : {TRUE}, json : {TRUE},
          testedUrls : {Undefined, Number, Val({}), Val({FileUrl})},
          vulnerableUrls : {Undefined, Number, Val(MapSet(EmptyMap, FileUrl, <<1>>))},
          seenDomains : {Undefined, Number, Numbers,
                         Val(MapSet(EmptyMap, "a.com", {1}))},
          lastTestedTime : {Undefined, Number,
                            Val(MapSet(EmptyMap, "a.com", StartTime - 1))}]

InitLoad ==
  /\ GateInit
  /\ rate = NoRate
  /\ pair = NoPair
  /\ ParseOff
  /\ ScanOff
  /\ call = NoCall
  /\ disk \in FileContents
  /\ writes = <<>>
  /\ loading = TRUE
  /\ loop = NoLoop

NextLoad ==
  \/ LoadSettles
  \/ \E url \in RecordUrls : Admit(url)
  \/ \E url \in RecordUrls : PersistCommit(url)
  \/ WriteSettles

SpecLoad == InitLoad /\ [][NextLoad]_vars

\* ---- SpecRestart: the store with its state-file writes, and a fresh store
\* constructed over the file the previous one left
\* new URLStore(config) with the same stateFile, and its loadState run to the
\* end; committed keeps the URLs committed before the restart.
Restart ==
  /\ writes = <<>>
  /\ disk.written
  /\ SetMemory(loadState(disk, EmptyMemory))
  /\ stateFile' = NoFile
  /\ ret' = [op |-> "new", value |-> FALSE, stats |-> NoStats]
  /\ pending' = {}
  /\ disciplined' = TRUE
  /\ UNCHANGED <<config, now, committed>>
  /\ UNCHANGED <<rate, pair, parseVars, scanVars, extraVars>>

NextRestart ==
  \/ \E url \in AdmitUrls : Admit(url)
  \/ \E url \in PersistUrls : PersistCommit(url)
  \/ PersistRecord(U("https", "a.com", 1, QId1), 1)
  \/ PersistCleanup
  \/ WriteLands
  \/ Tick
  \/ Restart

SpecRestart == Init /\ [][NextRestart]_vars

\* ---- the scanner loop (part_001: index, part_002: scanner)
CandidateUrls ==
  {U("https", "a.com", 1, QId1), U("https", "a.com", 2, QId1),
   U("https", "a.com", 1, <<>>), Malformed}
CandidateLists == UNION {[1..n -> CandidateUrls] : n \in 0..MaxUrls}

\* url-utils.js: the URL parses, its search holds '=', its host is not Google's
GoogleHosts == {"www.google.com"}
isValidTestUrl(url) ==
  url.ok /\ url.query # <<>> /\ url.host \notin GoogleHosts

LoopOther == UNCHANGED <<rate, pair, parseVars, scanVars, call, disk, writes, loading>>

\* index: const urls = await searchGoogle(dork)
SearchGoogle ==
  /\ loop.entry = "index" /\ loop.at = "dork"
  /\ \E urls \in CandidateLists :
       loop' = [loop EXCEPT !.urls = urls, !.i = 1, !.found = @ \o urls,
                            !.at = IF urls = <<>> THEN "wait" ELSE "url"]
  /\ UNCHANGED gateVars
  /\ LoopOther

\* scanner: the options of searchGoogle call sanitizeFilename, which the
\* module does not import; the ReferenceError goes to the catch of the dork.
ScannerDork ==
  /\ loop.entry = "scanner" /\ loop.at = "dork"
  /\ loop' = [loop EXCEPT !.at = "wait", !.logged = @ + 1]
  /\ UNCHANGED gateVars
  /\ LoopOther

\* The for loop over urls moves on.
NextUrl(l) ==
  IF l.i < Len(l.urls) THEN [l EXCEPT !.i = @ + 1, !.at = "url"]
  ELSE [l EXCEPT !.at = "wait"]

\* index: processSingleUrl up to its first await
processSingleUrl ==
  /\ loop.at = "url"
  /\ LET url == loop.urls[loop.i]
         invoked == [loop EXCEPT !.invoked = Append(@, url)]
     IN  IF ~isValidTestUrl(url)
           THEN loop' = NextUrl(invoked) /\ UNCHANGED gateVars
           ELSE /\ isUrlTested(url)
                /\ loop' = IF IsUrlTestedResult(url) THEN NextUrl(invoked)
                           ELSE [invoked EXCEPT
                                   !.at = "test",
                                   !.tested = Append(@, NormalizeUrl(url))]
  /\ LoopOther

\* index: await testSQLInjection(url) settles; nothing catches its rejection
\* before main().catch(console.error). A vulnerable result is displayed and
\* handed to resultStorage.saveVulnerableUrl, which writes a result file and
\* catches its own errors; the URL store is not called.
TestOutcomes == {"returned", "vulnerable", "threw"}
FoundVulnerable(l) ==
  [l EXCEPT !.vulnerable = @ \cup {l.tested[Len(l.tested)]}]
TestSettles ==
  /\ loop.at = "test"
  /\ \E outcome \in TestOutcomes :
       loop' = CASE outcome = "threw" -> [loop EXCEPT !.at = "rejected"]
                 [] outcome = "vulnerable" -> NextUrl(FoundVulnerable(loop))
                 [] OTHER -> NextUrl(loop)
  /\ UNCHANGED gateVars
  /\ LoopOther

\* The delay between two searches is over.
NextDork ==
  /\ loop.at = "wait"
  /\ loop' = IF loop.dork < NumDorks
               THEN [loop EXCEPT !.dork = @ + 1, !.at = "dork"]
               ELSE [loop EXCEPT !.at = "done"]
  /\ UNCHANGED gateVars
  /\ LoopOther

\* after the last dork: displaySummary reads urlStore.getStats()
displaySummary ==
  /\ loop.at = "done"
  /\ getStats
  /\ loop' = [loop EXCEPT !.at = "summary"]
  /\ LoopOther

InitLoop ==
  /\ GateInit
  /\ rate = NoRate
  /\ pair = NoPair
  /\ ParseOff
  /\ ScanOff
  /\ StoreOff
  /\ loop \in {[NoLoop EXCEPT !.entry = e, !.at = "dork", !.dork = 1] :
                 e \in {"index", "scanner"}}

NextLoop ==
  \/ SearchGoogle
  \/ ScannerDork
  \/ processSingleUrl
  \/ TestSettles
  \/ NextDork
  \/ displaySummary

SpecLoop == InitLoop /\ [][NextLoop]_vars

\* ---- SpecParse: the extractors applied to one response body
Alphabet == {"a", "b", ":", " "}
AdminBody == <<"a", "d", "m", "i", "n", ":", ":">>
Bodies == UNION {[1..n -> Alphabet] : n \in 0..MaxBodyLen} \cup {AdminBody}

ParseInit ==
  /\ GateInit
  /\ rate = NoRate
  /\ pair = NoPair
  /\ body \in Bodies
  /\ parsed = NotParsed
  /\ ScanOff
  /\ ExtraOff

Parse ==
  /\ ~parsed.done
  /\ parsed' = [done |-> TRUE,
                data |-> extractDataFromResponse(body),
                list |-> extractListFromResponse(body)]
  /\ UNCHANGED <<gateVars, rate, pair, body, scanVars, extraVars>>

NextParse == Parse

SpecParse == ParseInit /\ [][NextParse]_vars

\* The state of the scan as one record, and its write-back.
Cur ==
  [pc |-> pc, cursor |-> cursor, columnCount |-> columnCount, result |-> result,
   sys |-> sys, schema |-> schema, dbs |-> dbs, dump |-> dump, saves |-> saves,
   seen |-> schemaSeen, probes |-> probes]

Apply(s) ==
  /\ pc' = s.pc
  /\ cursor' = s.cursor
  /\ columnCount' = s.columnCount
  /\ result' = s.result
  /\ sys' = s.sys
  /\ schema' = s.schema
  /\ dbs' = s.dbs
  /\ dump' = s.dump
  /\ saves' = s.saves
  /\ schemaSeen' = s.seen
  /\ probes' = s.probes

\* A JavaScript Set kept as the sequence of its elements in insertion order.
SetAdd(seq, x) == IF x \in SeqElems(seq) THEN seq ELSE Append(seq, x)
RECURSIVE SetAddAll(_, _)
SetAddAll(seq, xs) ==
  IF xs = <<>> THEN seq ELSE SetAddAll(SetAdd(seq, Head(xs)), Tail(xs))

\* ---- save stage (lines 347-352, 576-624)
StartSave(s) == [s EXCEPT !.pc = "save", !.saves = {"json", "sql"}]

\* ---- dumpAllTables (lines 534-569)
\* result.columns.filter(col => col.includes(table)).map(col => col.split('.').pop())
DumpColumns(columns, table) ==
  LET Own(col) == Contains(col, table)
      own == SelectSeq(columns, Own)
  IN  [i \in 1..Len(own) |-> LastSegment(own[i])]

\* The limiter starts queued dump tasks while fewer than maxConcurrency run.
\* A task without columns returns at once; dumpAllTables resolves when no
\* task is left.
\* await Promise.all(tables.map(table => limit(...))) resolves
DumpResolvedEarly(d) == d.queue = <<>>
DumpResolved(d) == d.queue = <<>> /\ d.active = {}

RECURSIVE PumpDump(_)
PumpDump(s) ==
  IF s.dump.queue # <<>> /\ Cardinality(s.dump.active) < scanConfig.maxConcurrency
    THEN LET table == Head(s.dump.queue)
             columns == DumpColumns(s.result.columns, table)
             rest == [s EXCEPT !.dump.queue = Tail(@)]
         IN  IF columns = <<>> \/ target.params = 0
               THEN PumpDump(rest)
               ELSE LET task == [table |-> table, j |-> 1, cols |-> columns]
                    IN  PumpDump([rest EXCEPT !.dump.active = @ \cup {task},
                                              !.dump.sent = @ \cup {task}])
    ELSE IF s.dump.st = "run" /\ DumpResolved(s.dump)
      THEN StartSave([s EXCEPT !.dump.st = "done"])
      ELSE s

StartDump(s) ==
  PumpDump([s EXCEPT !.pc = "dump",
                     !.dump = [st |-> "run", queue |-> s.result.tables, active |-> {},
                               sent |-> {}]])

\* ---- extractDatabaseStructure (lines 491-525)
Running(d) == {k \in 1..Len(d) : d[k].st \in {"req", "join"}}
Queued(d) == {k \in 1..Len(d) : d[k].st = "queued"}

\* extractDatabaseStructure up to its first await.
StartDb(s, k) ==
  IF target.params >= 1
    THEN [s EXCEPT !.dbs[k].st = "req", !.dbs[k].j = 1]
    ELSE [s EXCEPT !.dbs[k].st = "done"]

\* The limiter of testSQLInjection; the structure stage resolves when every
\* extractDatabaseStructure has returned.
RECURSIVE PumpDbs(_)
PumpDbs(s) ==
  IF Queued(s.dbs) # {} /\ Cardinality(Running(s.dbs)) < scanConfig.maxConcurrency
    THEN PumpDbs(StartDb(s, Min(Queued(s.dbs))))
    ELSE IF s.pc = "structure" /\ \A k \in 1..Len(s.dbs) : s.dbs[k].st = "done"
      THEN StartDump(s)
      ELSE s

DbDone(s, k) == PumpDbs([s EXCEPT !.dbs[k].st = "done"])

StartStructure(s) ==
  PumpDbs([s EXCEPT !.pc = "structure",
                    !.dbs = [k \in 1..Len(s.result.databases) |->
                               [name |-> s.result.databases[k], st |-> "queued",
                                j |-> 0, queue |-> <<>>, active |-> {}]]])

\* The limiter of one table list: a started task adds its table to
\* result.tables and sends its column request.
RECURSIVE PumpCols(_, _)
PumpCols(s, k) ==
  IF s.dbs[k].queue # <<>> /\ Cardinality(s.dbs[k].active) < scanConfig.maxConcurrency
    THEN LET table == Head(s.dbs[k].queue)
         IN  PumpCols([s EXCEPT !.result.tables = SetAdd(@, table),
                                !.dbs[k].queue = Tail(@),
                                !.dbs[k].active = @ \cup {table}], k)
    ELSE s

\* Promise.all over the column tasks of one table list has resolved: on to
\* the next query parameter.
CheckJoin(s, k) ==
  IF s.dbs[k].st = "join" /\ s.dbs[k].queue = <<>> /\ s.dbs[k].active = {}
    THEN IF s.dbs[k].j < target.params
           THEN [s EXCEPT !.dbs[k].st = "req", !.dbs[k].j = @ + 1]
           ELSE DbDone(s, k)
    ELSE s

Qualified(dbName, table, col) == dbName \o <<".">> \o table \o <<".">> \o col

OnTables(s, k, o) ==
  IF ~o.ok
    THEN DbDone(s, k)
    ELSE CheckJoin(PumpCols([s EXCEPT !.dbs[k].st = "join",
                                      !.dbs[k].queue = extractListFromResponse(o.body)],
                            k), k)

OnCols(s, k, table, o) ==
  LET columns == extractListFromResponse(o.body)
      done == [s EXCEPT !.dbs[k].active = @ \ {table}]
      pushed == IF o.ok
                  THEN [done EXCEPT !.result.columns =
                          @ \o [i \in 1..Len(columns) |->
                                  Qualified(s.dbs[k].name, table, columns[i])]]
                  ELSE done
      next == PumpCols(pushed, k)
  IN  IF o.ok THEN CheckJoin(next, k)
      ELSE IF next.dbs[k].st = "join" THEN DbDone(next, k)
      ELSE next

OnDump(s, task, o) ==
  LET rows == extractListFromResponse(o.body)
      left == [s EXCEPT !.dump.active = @ \ {task}]
      stored == IF o.ok /\ Len(rows) > 0
                  THEN [left EXCEPT !.result.tableData = MapSet(@, task.table, rows)]
                  ELSE left
  IN  IF o.ok /\ task.j < target.params
        THEN [stored EXCEPT !.dump.active = @ \cup {[task EXCEPT !.j = @ + 1]},
                            !.dump.sent = @ \cup {[task EXCEPT !.j = @ + 1]}]
        ELSE PumpDump(stored)

\* ---- extractSystemInfo, extractDatabaseSchemas (lines 427-481)
JoinExtract(s) ==
  IF s.pc = "extract" /\ s.sys.wait = "done" /\ s.schema.wait = "done"
    THEN StartStructure(s)
    ELSE s

SysKey(s, i) ==
  IF i > Len(SysKeys) THEN [s EXCEPT !.sys = [i |-> 0, j |-> 0, wait |-> "done"]]
  ELSE IF target.params >= 1 THEN [s EXCEPT !.sys = [i |-> i, j |-> 1, wait |-> "req"]]
  ELSE [s EXCEPT !.sys = [i |-> i, j |-> 0, wait |-> "delay"]]

OnSys(s, o) ==
  LET data == extractDataFromResponse(o.body)
      kept == IF o.ok /\ data.found
                THEN [s EXCEPT !.result.databaseInfo[SysKeys[s.sys.i]] = data]
                ELSE s
  IN  IF ~o.ok THEN SysKey(s, s.sys.i + 1)
      ELSE IF s.sys.j < target.params THEN [kept EXCEPT !.sys.j = @ + 1]
      ELSE [kept EXCEPT !.sys.wait = "delay"]

\* The names a body lists, each ended by the marker.
RECURSIVE MarkerTerminated(_)
MarkerTerminated(text) ==
  LET at == {i \in 1..(Len(text) - 1) : text[i] = ":" /\ text[i + 1] = ":"}
  IN  IF at = {} THEN <<>>
      ELSE <<SubSeq(text, 1, Min(at) - 1)>>
             \o MarkerTerminated(SubSeq(text, Min(at) + 2, Len(text)))

NotSystemSchema(schemaName) ==
  ~Contains(schemaName, Str_information_schema) /\ ~Contains(schemaName, Str_mysql)

OnSchema(s, o) ==
  LET schemas == extractListFromResponse(o.body)
  IN  IF ~o.ok THEN [s EXCEPT !.schema = [i |-> 0, j |-> 0, wait |-> "done"]]
      ELSE LET added == [s EXCEPT !.result.databases =
                           SetAddAll(@, SelectSeq(schemas, NotSystemSchema)),
                         !.seen = @ \cup SeqElems(MarkerTerminated(o.body))]
           IN  IF s.schema.j < target.params
                 THEN [added EXCEPT !.schema.j = @ + 1]
                 ELSE [added EXCEPT !.schema = [i |-> 0, j |-> 0, wait |-> "done"]]

StartExtract(s) ==
  LET first == SysKey([s EXCEPT !.pc = "extract"], 1)
  IN  JoinExtract(
        IF target.params >= 1
          THEN [first EXCEPT !.schema = [i |-> 0, j |-> 1, wait |-> "req"]]
          ELSE [first EXCEPT !.schema = [i |-> 0, j |-> 0, wait |-> "done"]])

\* ---- findColumnCount (lines 399-418)
\* A slip: the scan goes on when no column count was found.
StopsScanNever(count) == count < 0

\* if (columnCount <= 0) return result
StopsScan(count) == count <= 0

ColumnsFound(s, count) ==
  LET found == [s EXCEPT !.columnCount = count, !.cursor = NoCursor]
  IN  IF StopsScan(count)
        THEN [found EXCEPT !.pc = "returned"]
        ELSE StartExtract(found)

ColumnPayload(s, i) ==
  IF i > Len(COLUMN_PAYLOADS) THEN ColumnsFound(s, 0)
  ELSE IF target.params >= 1 THEN [s EXCEPT !.cursor = [i |-> i, j |-> 1, wait |-> "req"]]
  ELSE [s EXCEPT !.cursor = [i |-> i, j |-> 0, wait |-> "delay"]]

\* A slip: the body is searched as sent, in its own letter case.
ColumnAcceptedAsSent(text) == ~Contains(text, Str_error)

\* !response.data.toLowerCase().includes('error')
ColumnAccepted(text) == ~Contains(toLowerCase(text), Str_error)

OnColumn(s, o) ==
  IF ~o.ok THEN ColumnPayload(s, s.cursor.i + 1)
  ELSE IF ColumnAccepted(o.body) THEN ColumnsFound(s, s.cursor.i)
  ELSE IF s.cursor.j < target.params THEN [s EXCEPT !.cursor.j = @ + 1]
  ELSE [s EXCEPT !.cursor.wait = "delay"]

\* ---- testBasicVulnerability (lines 368-391)
\* responseText.match(/sql|error|syntax/i)
DetectionMatchSqlOnly(text) == Contains(text, Str_sql)
DetectionMatch(text) ==
  Contains(text, Str_sql) \/ Contains(text, Str_error) \/ Contains(text, Str_syntax)

\* A slip that would request the URL once per payload whatever its query.
DetectionPayloadBare(s, i) ==
  IF i > Len(DETECTION_PAYLOADS) THEN [s EXCEPT !.pc = "returned", !.cursor = NoCursor]
  ELSE [s EXCEPT !.cursor = [i |-> i, j |-> 1, wait |-> "req"]]
DetectionPayload(s, i) ==
  IF i > Len(DETECTION_PAYLOADS) THEN [s EXCEPT !.pc = "returned", !.cursor = NoCursor]
  ELSE IF target.params >= 1 THEN [s EXCEPT !.cursor = [i |-> i, j |-> 1, wait |-> "req"]]
  ELSE [s EXCEPT !.cursor = [i |-> i, j |-> 0, wait |-> "delay"]]

Answered(s, o) ==
  [s EXCEPT !.probes = Append(@, [i |-> s.cursor.i, j |-> s.cursor.j, o |-> o])]

\* catch (error) { log(...); continue; }: the payload to go on with
AfterFailureSame(i) == i
AfterFailure(i) == i + 1

\* A slip that would record the catalog's payload instead of the one sent.
PushRawPayload(list, i) == Append(list, DETECTION_PAYLOADS[i])
\* result.successfulPayloads.push(sanitizedPayload)
PushPayload(list, i) == Append(list, sanitizePayload(DETECTION_PAYLOADS[i]))

OnDetection(s, o) ==
  IF ~o.ok THEN DetectionPayload(Answered(s, o), AfterFailure(s.cursor.i))
  ELSE IF DetectionMatch(toLowerCase(o.body))
    THEN ColumnPayload(
           [Answered(s, o) EXCEPT
              !.result.successfulPayloads = PushPayload(@, s.cursor.i),
              !.result.vulnerable = TRUE,
              !.pc = "columns"], 1)
  ELSE IF s.cursor.j < target.params THEN [Answered(s, o) EXCEPT !.cursor.j = @ + 1]
  ELSE [Answered(s, o) EXCEPT !.cursor.wait = "delay"]

\* ---- the actions
ScanStep(s) ==
  Apply(s) /\ UNCHANGED <<gateVars, rate, pair, parseVars, scanInputs, extraVars>>

\* testSQLInjection(url, config) is called.
testSQLInjection ==
  /\ pc = "idle"
  /\ ScanStep(IF validateUrl(target)
                THEN DetectionPayload([Cur EXCEPT !.pc = "detect"], 1)
                ELSE [Cur EXCEPT !.pc = "threw"])

DetectionResponse ==
  /\ pc = "detect" /\ cursor.wait = "req"
  /\ \E o \in transport.detect : ScanStep(OnDetection(Cur, o))

DetectionDelay ==
  /\ pc = "detect" /\ cursor.wait = "delay"
  /\ ScanStep(DetectionPayload(Cur, cursor.i + 1))

ColumnResponse ==
  /\ pc = "columns" /\ cursor.wait = "req"
  /\ \E o \in ColumnOutcomes(sanitizePayload(COLUMN_PAYLOADS[cursor.i])) :
       ScanStep(OnColumn(Cur, o))

ColumnDelay ==
  /\ pc = "columns" /\ cursor.wait = "delay"
  /\ ScanStep(ColumnPayload(Cur, cursor.i + 1))

SystemInfoResponse ==
  /\ sys.wait = "req"
  /\ \E o \in transport.sysinfo : ScanStep(JoinExtract(OnSys(Cur, o)))

SystemInfoDelay ==
  /\ sys.wait = "delay"
  /\ ScanStep(JoinExtract(SysKey(Cur, sys.i + 1)))

SchemaResponse ==
  /\ schema.wait = "req"
  /\ \E o \in transport.schema : ScanStep(JoinExtract(OnSchema(Cur, o)))

TablesResponse ==
  \E k \in 1..Len(dbs) :
    /\ dbs[k].st = "req"
    /\ \E o \in transport.tables : ScanStep(OnTables(Cur, k, o))

\* The column-list probes of the tables in transport.lost get no answer.
ColsOutcomes(table) == IF table \in transport.lost THEN {Failure} ELSE transport.cols

ColumnsResponse ==
  \E k \in 1..Len(dbs) : \E table \in dbs[k].active :
    \E o \in ColsOutcomes(table) : ScanStep(OnCols(Cur, k, table, o))

DumpResponse ==
  \E task \in dump.active :
    \E o \in transport.dump : ScanStep(OnDump(Cur, task, o))

\* fs.writeFile settles; a failed write rejects testSQLInjection.
SaveSettles ==
  \E file \in saves : \E ok \in transport.save :
    ScanStep([Cur EXCEPT !.saves = @ \ {file},
                         !.pc = IF @ # "save" THEN @
                                ELSE IF ~ok THEN "threw"
                                ELSE IF saves = {file} THEN "returned"
                                ELSE @])

NextScan ==
  \/ testSQLInjection
  \/ DetectionResponse
  \/ DetectionDelay
  \/ ColumnResponse
  \/ ColumnDelay
  \/ SystemInfoResponse
  \/ SystemInfoDelay
  \/ SchemaResponse
  \/ TablesResponse
  \/ ColumnsResponse
  \/ DumpResponse
  \/ SaveSettles

\* ---- the inputs of the scan
ScanInputs(targets, configs, transports) ==
  /\ GateInit
  /\ config.maxPathsPerDomain = MaxM
  /\ rate = NoRate
  /\ pair = NoPair
  /\ ParseOff
  /\ target \in targets
  /\ scanConfig \in configs
  /\ transport \in transports
  /\ ScanIdle
  /\ ExtraOff

\* ---- SpecColumns: column discovery against a transport with a threshold
\* k in 1..NumColumnPayloads, or one that accepts no probe (k beyond the
\* catalog) and may also drop the request.
ThresholdTransport(k, columnOutcomes) ==
  [detect |-> {Response(BodySQL), Response(BodyClean), Failure},
   threshold |-> k,
   column |-> columnOutcomes,
   sysinfo |-> {Response(Marked(<<Str_v>>))},
   schema |-> {Response(Marked(<<Str_mydb>>))},
   tables |-> {Response(Marked(<<Str_users>>))},
   cols |-> {Response(Marked(<<Str_id>>))},
   dump |-> {Response(Marked(<<Str_r>>))},
   lost |-> {},
   save |-> {TRUE}]

ThresholdTransports ==
  {ThresholdTransport(k, {Response(BodyError), Response(BodyClean)}) :
     k \in 1..(NumColumnPayloads + 1)}
  \cup {ThresholdTransport(NumColumnPayloads + 1,
                           {Response(BodyError), Response(BodyClean), Failure})}

InitColumns == ScanInputs(Targets, {SCAN_CONFIG}, ThresholdTransports)
SpecColumns == InitColumns /\ [][NextScan]_vars

\* ---- SpecDetect: any response to a detection probe, each word of the
\* signature among them; the later stages answer in one way
DetectTransport ==
  [ThresholdTransport(NumColumnPayloads, {Response(BodyError), Response(BodyClean)})
     EXCEPT !.detect = {Response(BodySQL), Response(BodyError),
                        Response(Str_syntax), Response(BodyClean), Failure}]

InitDetect == ScanInputs(Targets, {SCAN_CONFIG}, {DetectTransport})
SpecDetect == InitDetect /\ [][NextScan]_vars

\* ---- SpecEndToEnd: any response to detection, column and schema probes; one
\* table with one column and one row behind every database.
EndToEndTransport ==
  [detect |-> {Response(BodySQL), Response(BodyClean), Failure},
   threshold |-> 0,
   column |-> {Response(BodyError), Response(BodyClean), Failure},
   sysinfo |-> {Response(Marked(<<Str_v>>)), Failure},
   schema |-> {Response(Marked(<<Str_mydb>>)),
               Response(Marked(<<Str_mysql_app>>)),
               Response(Marked(<<Str_information_schema, Str_mysql, Str_shop>>)),
               Response(BodyEmpty),
               Failure},
   tables |-> {Response(Marked(<<Str_users>>))},
   cols |-> {Response(Marked(<<Str_id>>))},
   dump |-> {Response(Marked(<<Str_r>>))},
   lost |-> {},
   save |-> {TRUE, FALSE}]

InitEndToEnd == ScanInputs(Targets, {SCAN_CONFIG}, {EndToEndTransport})
SpecEndToEnd == InitEndToEnd /\ [][NextScan]_vars

\* ---- SpecScan: any response to structure and dump probes
ScanTransport ==
  [detect |-> {Response(BodySQL), Response(BodyClean), Failure},
   threshold |-> 0,
   column |-> {Response(BodyError), Response(BodyClean), Failure},
   sysinfo |-> {Response(BodyEmpty), Failure},
   schema |-> {Response(Marked(<<Str_mydb>>)), Failure},
   tables |-> {Response(Marked(<<Str_users, Str_logs>>)),
               Response(Marked(<<Str_users>>)),
               Response(BodyEmpty),
               Failure},
   cols |-> {Response(Marked(<<Str_id>>)), Response(BodyEmpty), Failure},
   dump |-> {Response(Marked(<<Str_r, Str_s>>)), Response(Marked(<<Str_r>>)),
             Response(BodyEmpty), Failure},
   lost |-> {},
   save |-> {TRUE, FALSE}]

ScanConfigs == {[SCAN_CONFIG EXCEPT !.maxConcurrency = c] : c \in Concurrencies}

InitScan == ScanInputs(Targets, ScanConfigs, {ScanTransport})
SpecScan == InitScan /\ [][NextScan]_vars

\* ---- SpecDatabases: two databases of two tables each behind a target with
\* one query parameter; table-list, column-list and dump probes may fail.
DatabasesTransport ==
  [detect |-> {Response(BodySQL), Response(BodyClean)},
   threshold |-> 0,
   column |-> {Response(BodyError), Response(BodyClean)},
   sysinfo |-> {Response(BodyEmpty)},
   schema |-> {Response(Marked(<<Str_mydb, Str_shop>>))},
   tables |-> {Response(Marked(<<Str_users, Str_logs>>)), Failure},
   cols |-> {Response(Marked(<<Str_id>>)), Failure},
   dump |-> {Response(Marked(<<Str_r>>)), Failure},
   lost |-> {},
   save |-> {TRUE}]

InitDatabases ==
  ScanInputs({[valid |-> TRUE, params |-> 1]}, ScanConfigs, {DatabasesTransport})
SpecDatabases == InitDatabases /\ [][NextScan]_vars

\* ---- SpecOrder: every structure and dump probe has one fixed outcome; the
\* column-list probe of users may be one that gets no answer.
OrderTransport(lost) ==
  [detect |-> {Response(BodySQL), Response(BodyClean)},
   threshold |-> 0,
   column |-> {Response(BodyError), Response(BodyClean)},
   sysinfo |-> {Response(BodyEmpty)},
   schema |-> {Response(Marked(<<Str_mydb>>))},
   tables |-> {Response(Marked(<<Str_users, Str_logs>>))},
   cols |-> {Response(Marked(<<Str_id>>))},
   dump |-> {Response(Marked(<<Str_r>>))},
   lost |-> lost,
   save |-> {TRUE}]

InitOrder ==
  ScanInputs({[valid |-> TRUE, params |-> 1]}, ScanConfigs,
             {OrderTransport(lost) : lost \in SUBSET {Str_users}})
SpecOrder == InitOrder /\ [][NextScan]_vars

\* ---- SpecSkip: tables users, user and logs; the column list of user, of
\* logs, of both or of neither is lost
SkipTransport(lost) ==
  [OrderTransport(lost)
     EXCEPT !.tables = {Response(Marked(<<Str_users, Str_user, Str_logs>>))}]

InitSkip ==
  ScanInputs({[valid |-> TRUE, params |-> 1]}, ScanConfigs,
             {SkipTransport(lost) : lost \in SUBSET {Str_user, Str_logs}})
SpecSkip == InitSkip /\ [][NextScan]_vars

\* ---- searchGoogle (http-client.js lines 75-129), called by main of index
DEFAULT_CONFIG == [maxPages |-> 1, maxRetries |-> 3]

\* What searchGooglePage resolves with: the links of a page that parse, hold
\* '=' and are not Google's, as an array without duplicates.
SearchUrls ==
  {U("https", "a.com", 1, QId1), U("https", "a.com", 1, QId1Utm),
   U("https", "a.com", 2, QId1)}
PageResults ==
  {urls \in UNION {[1..n -> SearchUrls] : n \in 0..MaxUrls} : NoRepeat(urls)}
PageFailures == {"429", "error"}

\* return uniqueUrls / return []: main of index goes on with the list
SearchReturns(l, urls) ==
  [l EXCEPT !.search.st = "off", !.urls = urls, !.i = 1, !.found = @ \o urls,
            !.at = IF urls = <<>> THEN "wait" ELSE "url"]

\* index: searchGoogle(dork) up to its first await; a config may set maxPages
searchGoogle ==
  /\ loop.entry = "index" /\ loop.at = "dork"
  /\ \E maxPages \in {DEFAULT_CONFIG.maxPages} \cup 1..MaxPages :
       loop' = [loop EXCEPT !.at = "search",
                            !.search = [NoSearch EXCEPT !.st = "page",
                                                        !.maxPages = maxPages,
                                                        !.before = testedUrls]]
  /\ UNCHANGED gateVars
  /\ LoopOther

\* Array.from(allUrls).filter(...) is over: log, no outputFile, return
FilterNext(l) ==
  IF l.search.k < Len(l.search.allUrls)
    THEN [l EXCEPT !.search.k = @ + 1, !.search.st = "filter"]
    ELSE SearchReturns(l, l.search.uniqueUrls)

\* the pages are fetched: filter what was collected
StartFilter(l) ==
  IF l.search.allUrls = <<>> THEN SearchReturns(l, <<>>)
  ELSE [l EXCEPT !.search.st = "filter", !.search.k = 1]

\* await searchGooglePage(...) resolves
PageResolves(l, urls) ==
  LET got == [l EXCEPT !.search.allUrls = SetAddAll(@, urls)]
  IN  IF urls = <<>> \/ l.search.page = l.search.maxPages - 1
        THEN StartFilter(got)
        ELSE [got EXCEPT !.search.page = @ + 1]

\* while (retries < searchConfig.maxRetries)
RetriesLeftAlways(retries) == TRUE
RetriesLeft(retries) == retries < DEFAULT_CONFIG.maxRetries
\* if (retries >= searchConfig.maxRetries)
MaxRetriesReached(retries) == retries >= DEFAULT_CONFIG.maxRetries

\* await searchGooglePage(...) rejects: the catch of the attempt
PageRejects(l, failure) ==
  LET retries == l.search.retries + 1
      caught == [l EXCEPT !.search.retries = retries, !.search.failed = @ + 1,
                          !.search.page = 0]
      again(w) == [caught EXCEPT !.search.waited = Append(@, w)]
  IN  IF failure = "429"
        THEN IF RetriesLeft(retries) THEN again(2)
             ELSE SearchReturns(again(2), <<>>)
        ELSE IF MaxRetriesReached(retries) THEN SearchReturns(caught, <<>>)
             ELSE IF RetriesLeft(retries) THEN again(1)
             ELSE SearchReturns(again(1), <<>>)

PageSettles ==
  /\ loop.at = "search" /\ loop.search.st = "page"
  /\ loop.search.failed <= DEFAULT_CONFIG.maxRetries
  /\ \/ \E urls \in PageResults : loop' = PageResolves(loop, urls)
     \/ \E failure \in PageFailures : loop' = PageRejects(loop, failure)
  /\ UNCHANGED gateVars
  /\ LoopOther

\* the filter callback on one URL: validateUrl and urlStore.isUrlTested
FilterAdmit ==
  /\ loop.at = "search" /\ loop.search.st = "filter"
  /\ LET url == loop.search.allUrls[loop.search.k]
     IN  /\ isUrlTested(url)
         /\ loop' = IF url.ok /\ ~IsUrlTestedResult(url)
                      THEN [loop EXCEPT !.search.st = "commit"]
                      ELSE FilterNext(loop)
  /\ LoopOther

\* the same callback, same step: urlStore.markUrlAsTested(url); return true
FilterCommit ==
  /\ loop.at = "search" /\ loop.search.st = "commit"
  /\ LET url == loop.search.allUrls[loop.search.k]
     IN  /\ markUrlAsTested(url)
         /\ loop' = FilterNext([loop EXCEPT !.search.uniqueUrls = Append(@, url)])
  /\ LoopOther

\* ---- SpecSearch: main of index over searchGoogle as found in http-client.js
InitSearch ==
  /\ GateInit
  /\ rate = NoRate
  /\ pair = NoPair
  /\ ParseOff
  /\ ScanOff
  /\ StoreOff
  /\ loop = [NoLoop EXCEPT !.entry = "index", !.at = "dork", !.dork = 1]

NextSearch ==
  \/ searchGoogle
  \/ PageSettles
  \/ FilterAdmit
  \/ FilterCommit
  \/ processSingleUrl
  \/ NextDork
  \/ displaySummary

SpecSearch == InitSearch /\ [][NextSearch]_vars /\ WF_vars(NextSearch)

\* ------------------------------------------------------------------ claims

\* C1 (exactly-once testing): once markUrlAsTested(u) has run, isUrlTested(v)
\* returns true for every v with normalizeUrl(v) = normalizeUrl(u), in every
\* later state of the store, whatever calls were made and however late it is.
C1_ExactlyOnce ==
  \A v \in AllUrls : NormalizeUrl(v) \in committed => IsUrlTestedResult(v)

\* A committed URL is asked for again after its domain record was cleaned up
\* at the latest time, and is rejected.
C1_Witness ==
  /\ ret.op = "isUrlTested" /\ ret.value = TRUE
  /\ committed # {}
  /\ seenDomains = EmptyMap
  /\ now = StartTime + MaxTime

\* C3 (cooldown reset): when a domain holds maxPathsPerDomain paths or more
\* and at least cooldownPeriod has elapsed since its lastTestedTime,
\* isUrlTested of a URL of that domain not yet in testedUrls returns false and
\* leaves the domain's set of paths empty.
C3_CooldownReset ==
  [][\A url \in Urls :
       ( /\ isUrlTested(url)
         /\ url.ok
         /\ url.host \in DOMAIN seenDomains
         /\ Cardinality(seenDomains[url.host]) >= config.maxPathsPerDomain
         /\ now - LastTest(url.host) >= config.cooldownPeriod
         /\ NormalizeUrl(url) \notin testedUrls )
       => (ret'.value = FALSE /\ seenDomains'[url.host] = {})]_vars

\* isUrlTested has just admitted a URL and the record of some domain is empty.
C3_Witness ==
  /\ ret.op = "isUrlTested" /\ ret.value = FALSE
  /\ \E d \in DOMAIN seenDomains : seenDomains[d] = {}

\* C4 (DomainRecord bound): as long as every markUrlAsTested(url) directly
\* followed a successful isUrlTested(url), no domain holds more than
\* maxPathsPerDomain paths.
C4_DomainBound ==
  disciplined =>
    \A d \in DOMAIN seenDomains :
      Cardinality(seenDomains[d]) <= config.maxPathsPerDomain

\* A commit fills a domain again after an earlier reset of that domain.
C4_Witness ==
  /\ disciplined
  /\ ret.op = "markUrlAsTested"
  /\ \E d \in DOMAIN seenDomains :
       /\ Cardinality(seenDomains[d]) = config.maxPathsPerDomain
       /\ Cardinality({u \in testedUrls : u.host = d}) > config.maxPathsPerDomain

\* C2 (per-domain rate limit): in the scenario of SpecRate the i-th submission
\* is admitted exactly when i <= maxPathsPerDomain.
C2_RateLimit ==
  \A i \in 1..Len(rate.outcomes) :
    rate.outcomes[i].admitted <=> (i <= config.maxPathsPerDomain)

\* The submission after the maxPathsPerDomain-th has been made and rejected.
C2_Witness ==
  /\ Len(rate.outcomes) = config.maxPathsPerDomain + 1
  /\ ~rate.outcomes[config.maxPathsPerDomain + 1].admitted

\* Two well-formed URLs that differ at most in their tracking parameters.
SameButTracking(u, v) ==
  /\ u.ok /\ v.ok
  /\ u.scheme = v.scheme /\ u.host = v.host /\ u.path = v.path
  /\ SelectSeq(u.query, LAMBDA p : p.name \notin TrackingParams)
       = SelectSeq(v.query, LAMBDA p : p.name \notin TrackingParams)

\* C5 (normalization identity): normalizeUrl of a well-formed URL depends on
\* its origin and path only; so after markUrlAsTested(u), isUrlTested(v)
\* returns true for every v that differs from u at most in tracking parameters.
C5_Normalization ==
  /\ \A u, v \in AllUrls :
       (u.ok /\ v.ok /\ u.scheme = v.scheme /\ u.host = v.host /\ u.path = v.path)
         => NormalizeUrl(u) = NormalizeUrl(v)
  /\ (pair.step = "done" /\ SameButTracking(pair.first, pair.second))
       => (ret.op = "isUrlTested" /\ ret.value = TRUE)

\* A URL with a tracking parameter was asked for after the same URL without
\* it had been committed.
C5_Witness ==
  /\ pair.step = "done"
  /\ pair.first # pair.second
  /\ SameButTracking(pair.first, pair.second)
  /\ Len(pair.first.query) < Len(pair.second.query)
  /\ ret.value = TRUE

\* The positions where "::" starts.
DelimPositions(text) ==
  {i \in 1..(Len(text) - 1) : text[i] = ":" /\ text[i + 1] = ":"}

\* The longest run of token characters that ends right before position i.
TokenBefore(text, i) ==
  SubSeq(text, Min({s \in 1..i : \A k \in s..(i - 1) : text[k] \in TokenChars}), i - 1)

\* C10 as stated (marker parsing): the scalar extractor returns the token
\* right before the first "::" of the body, and null when the body has no
\* "::". Where no token precedes the first "::", null and the empty string
\* both count as that token.
C10_TokenBeforeFirstDelimiter ==
  parsed.done =>
    IF DelimPositions(body) = {}
      THEN parsed.data = Null
      ELSE LET t == TokenBefore(body, Min(DelimPositions(body)))
           IN  IF t = <<>>
                 THEN parsed.data \in {Null, Found(<<>>)}
                 ELSE parsed.data = Found(t)

\* The positions of the token characters directly followed by "::".
TerminatedAt(text) ==
  {k \in 1..(Len(text) - 2) :
     text[k] \in TokenChars /\ text[k + 1] = ":" /\ text[k + 2] = ":"}

\* C10 as amended: the scalar extractor returns the first longest run of
\* token characters that is directly followed by "::" (which is the token
\* before the first "::" whenever a token character directly precedes that
\* "::"), and null exactly when no token character is directly followed by
\* "::", in particular when the body has no "::"; "admin::" yields "admin".
C10_FirstTerminatedToken ==
  parsed.done =>
    /\ IF TerminatedAt(body) = {}
         THEN parsed.data = Null
         ELSE parsed.data = Found(TokenBefore(body, Min(TerminatedAt(body)) + 1))
    /\ DelimPositions(body) = {} => parsed.data = Null
    /\ body = AdminBody => parsed.data = Found(<<"a", "d", "m", "i", "n">>)

\* A body whose first "::" has no token before it, and a value is extracted.
C10_Witness ==
  /\ parsed.done /\ parsed.data.found
  /\ DelimPositions(body) # {}
  /\ TokenBefore(body, Min(DelimPositions(body))) = <<>>

\* ---- column discovery
\* The transport answers every UNION probe, with the error signature exactly
\* below a threshold k that the catalog reaches.
HasThreshold ==
  transport.threshold \in 1..NumColumnPayloads /\ Failure \notin transport.column

\* The arity of the probe the cursor stands at.
ProbeArity(c) == Arity(sanitizePayload(COLUMN_PAYLOADS[c.i]))

\* C6 (minimal accepted arity): against a transport whose response to the
\* N-column probe has the error signature exactly when N < k, column discovery
\* returns k; every probe it sends has at least the arity of the one before
\* (the same probe for the next parameter, or a wider one) and at most k, and
\* once a probe of arity k is answered no column probe is sent again.
C6_MinimalAcceptedArity ==
  [][HasThreshold =>
       /\ columnCount' # NoCount => columnCount' = transport.threshold
       /\ (pc' = "columns" /\ cursor'.wait = "req") =>
            /\ ProbeArity(cursor') <= transport.threshold
            /\ pc = "columns" =>
                 \/ ProbeArity(cursor') > ProbeArity(cursor)
                 \/ /\ cursor'.i = cursor.i
                    /\ cursor'.j = cursor.j + 1
       /\ (pc = "columns" /\ cursor.wait = "req"
             /\ ProbeArity(cursor) = transport.threshold) => pc' # "columns"
       /\ pc \notin {"idle", "detect", "columns"} => pc' # "columns"
    ]_vars

\* Discovery has returned 2 or more after the narrower probes were rejected
\* for every parameter.
C6_Witness ==
  /\ HasThreshold
  /\ transport.threshold >= 2
  /\ target.params = MaxParams
  /\ columnCount = transport.threshold

\* No probe is accepted: each is answered with the error signature or fails.
NeverAccepts == transport.threshold > NumColumnPayloads

ExtractionStarted ==
  \/ sys.wait # "off"
  \/ schema.wait # "off"
  \/ dbs # <<>>
  \/ dump.st # "off"
  \/ saves # {}

CollectionsEmpty(r) ==
  /\ r.databases = <<>>
  /\ r.tables = <<>>
  /\ r.columns = <<>>
  /\ DOMAIN r.tableData = {}

\* C7 (undetermined arity aborts extraction): when every column probe is
\* rejected or fails, column discovery returns 0; and whenever it returns 0
\* the scan has returned, no system-info, schema, structure or dump probe and
\* no file write was ever started, and databases, tables, columns and
\* tableData are empty.
C7_UndeterminedArityAborts ==
  /\ (NeverAccepts /\ result.vulnerable /\ pc # "columns") => columnCount = 0
  /\ columnCount = 0 =>
       /\ pc = "returned"
       /\ ~ExtractionStarted
       /\ CollectionsEmpty(result)

\* Detection matched, some column request failed, none was accepted, and the
\* scan has returned.
C7_Witness ==
  /\ NeverAccepts
  /\ Failure \in transport.column
  /\ result.vulnerable
  /\ columnCount = 0
  /\ pc = "returned"

\* ---- end to end
SystemSchemas == {Str_information_schema, Str_mysql}

\* C8 (end-to-end result): when detection matched, column discovery accepted
\* N columns and schema enumeration listed the names S, the returned result
\* has vulnerable = true, the column count N of the catalog, and as databases
\* S without the system schemas.
C8_EndToEnd ==
  (pc = "returned" /\ columnCount > 0) =>
    /\ result.vulnerable
    /\ columnCount \in 1..NumColumnPayloads
    /\ SeqElems(result.databases) = schemaSeen \ SystemSchemas

\* ---- monotonic result
IsPrefix(a, b) == Len(a) <= Len(b) /\ SubSeq(b, 1, Len(a)) = a

Grows(r, q) ==
  /\ SeqElems(r.databases) \subseteq SeqElems(q.databases)
  /\ SeqElems(r.tables) \subseteq SeqElems(q.tables)
  /\ IsPrefix(r.columns, q.columns)
  /\ IsPrefix(r.successfulPayloads, q.successfulPayloads)
  /\ \A table \in DOMAIN r.tableData :
       /\ table \in DOMAIN q.tableData
       /\ SeqElems(r.tableData[table]) \subseteq SeqElems(q.tableData[table])

\* C9 (monotonic result): in every step of a scan, databases and tables keep
\* their elements, columns and successfulPayloads keep their content as a
\* prefix, and tableData keeps every key and every row it held.
C9_Monotonic == [][Grows(result, result')]_vars

\* C11: the vulnerable index is append-only and value-deduplicated: no
\* payload list holds a duplicate, every list is a prefix of the list the
\* same key has after any call, no key is removed, and recording a payload the
\* URL already has leaves the index unchanged.
NoDuplicate(list) ==
  \A i, j \in 1..Len(list) : list[i] = list[j] => i = j
Recorded == call'.payload \in SeqElems(PayloadsOf(NormalizeUrl(call'.url)))
C11_AppendOnly ==
  [][/\ \A key \in DOMAIN vulnerableUrls :
          /\ key \in DOMAIN vulnerableUrls'
          /\ IsPrefix(vulnerableUrls[key], vulnerableUrls'[key])
     /\ \A key \in DOMAIN vulnerableUrls' : NoDuplicate(vulnerableUrls'[key])
     /\ (ret'.op = "addVulnerableUrl" /\ Recorded)
          => vulnerableUrls' = vulnerableUrls]_vars
\* both payloads recorded for one URL, the last call repeating one of them
C11_Witness ==
  /\ ret.op = "addVulnerableUrl"
  /\ call.made
  /\ Len(PayloadsOf(NormalizeUrl(call.url))) = NumPayloads
  /\ Cardinality(DOMAIN vulnerableUrls) >= 2
  /\ PayloadsOf(NormalizeUrl(call.url))[1] = call.payload

\* C12: the probes of one stage that are in flight at one time never exceed
\* maxConcurrency: the table-list and column-list probes of all databases
\* together in the structure stage, the dump probes in the dump stage.
RECURSIVE Sum(_, _)
Sum(f, keys) ==
  IF keys = {} THEN 0
  ELSE LET k == CHOOSE x \in keys : TRUE IN f[k] + Sum(f, keys \ {k})
StructureInFlight ==
  Sum([k \in 1..Len(dbs) |->
         (IF dbs[k].st = "req" THEN 1 ELSE 0) + Cardinality(dbs[k].active)],
      1..Len(dbs))
DumpInFlight == Cardinality(dump.active)
C12_BoundedConcurrency ==
  /\ StructureInFlight <= scanConfig.maxConcurrency
  /\ DumpInFlight <= scanConfig.maxConcurrency

\* C13: the dump stage starts only after the structure stage has ended: no
\* dump probe is in flight while a table-list or column-list probe is, and
\* result.columns gets no element once dumpAllTables has been called, also
\* when table-list or column-list probes fail.
DumpStarted == dump.st # "off"
C13_StageOrdering ==
  [][/\ DumpInFlight' > 0 => StructureInFlight' = 0
     /\ DumpStarted => result'.columns = result.columns]_vars

\* C14: with one fixed outcome per probe, the order in which the probes in
\* flight complete does not change what the run ends with: databases, tables,
\* columns, tableData and the dump probes sent are those of the run in which
\* the responses arrive in one chosen order.
TheOutcome(outcomes) == CHOOSE o \in outcomes : TRUE
RECURSIVE OneOrder(_)
OneOrder(s) ==
  IF \E k \in 1..Len(s.dbs) : s.dbs[k].st = "req"
    THEN LET k == Min({i \in 1..Len(s.dbs) : s.dbs[i].st = "req"})
         IN  OneOrder(OnTables(s, k, TheOutcome(transport.tables)))
  ELSE IF \E k \in 1..Len(s.dbs) : s.dbs[k].active # {}
    THEN LET k == Min({i \in 1..Len(s.dbs) : s.dbs[i].active # {}})
             table == CHOOSE t \in s.dbs[k].active : TRUE
         IN  OneOrder(OnCols(s, k, table, TheOutcome(ColsOutcomes(table))))
  ELSE IF s.dump.active # {}
    THEN LET task == CHOOSE t \in s.dump.active : TRUE
         IN  OneOrder(OnDump(s, task, TheOutcome(transport.dump)))
  ELSE s
\* the structure stage entered with the databases of this run
Entered ==
  StartStructure([Cur EXCEPT !.result.tables = <<>>, !.result.columns = <<>>,
                             !.result.tableData = EmptyMap, !.dump = NoDump,
                             !.saves = {}])
Outcome(s) ==
  [databases |-> s.result.databases, tables |-> s.result.tables,
   columns |-> s.result.columns, tableData |-> s.result.tableData,
   sent |-> s.dump.sent]
Settled ==
  /\ pc \in {"returned", "threw"}
  /\ dump.st = "done"
  /\ StructureInFlight = 0
  /\ DumpInFlight = 0
C14_OrderIndependence == Settled => Outcome(Cur) = Outcome(OneOrder(Entered))

\* C15: a failed state-file write changes nothing for the caller: the step in
\* which a write fails leaves the four structures as the calls made them and
\* returns nothing to any caller, so what isUrlTested answers afterwards is
\* what it answers had the write succeeded.
WriteFails == Len(writes') < Len(writes) /\ disk' \in {disk, NotJson}
Answers == [url \in PersistUrls |-> IsUrlTestedResult(url)]
C15_FireAndForget ==
  [][WriteFails => /\ Memory' = Memory
                   /\ ret' = ret
                   /\ Answers' = Answers]_vars
\* every write has failed, the store holds what was committed and recorded,
\* and isUrlTested has just rejected a committed URL
C15_Witness ==
  /\ writes = <<>>
  /\ ~disk.written
  /\ testedUrls # {}
  /\ DOMAIN vulnerableUrls # {}
  /\ ret.op = "isUrlTested"
  /\ ret.value

\* C16: once the result files are being written, testSQLInjection does not
\* reject: a write of the JSON or SQL file that fails is only logged, and the
\* run goes on to return the result.
SaveStageReached == dump.st = "done"
C16_ResultReturned == SaveStageReached => pc \in {"save", "returned"}

\* C17: a call of isUrlTested or markUrlAsTested with a string that is not a
\* parseable URL creates and changes no domain record (no path set, no
\* timestamp, no pathname taken from the string), and isUrlTested rejects the
\* string exactly when markUrlAsTested was called with the same string before.
MalformedCall ==
  /\ call'.made
  /\ ~call'.url.ok
  /\ ret'.op \in {"isUrlTested", "markUrlAsTested"}
C17_MalformedUrls ==
  [][MalformedCall =>
       /\ seenDomains' = seenDomains
       /\ lastTestedTime' = lastTestedTime
       /\ ret'.op = "isUrlTested" => (ret'.value <=> call'.url \in committed)
       /\ ret'.op = "markUrlAsTested" => call'.url \in testedUrls']_vars
\* a malformed string rejected after its commit, while another malformed
\* string is not committed and the domain whose text it holds is rate limited
C17_Witness ==
  /\ call.made
  /\ call.url = Schemeless
  /\ ret.op = "isUrlTested"
  /\ ret.value
  /\ Malformed \notin testedUrls
  /\ DomainFull(PathsOf("a.com"))
  /\ InCooldown("a.com")

\* C18: a state file that is missing, unreadable or corrupt leaves the store
\* empty: when reading it, parsing it or converting one of its fields fails,
\* loadState ends with none of the four structures holding anything taken
\* from that file.
LoadFails(file) ==
  \/ ~file.written
  \/ ~file.json
  \/ file.testedUrls.type = "number"
  \/ file.seenDomains.type = "numbers"
C18_CorruptSnapshotResets ==
  [][(loading /\ ~loading' /\ Memory = EmptyMemory /\ LoadFails(disk))
       => Memory' = EmptyMemory]_vars

\* C19: a target whose test raises does not stop the scanner: when main ends,
\* every dork has been searched and processSingleUrl has been invoked, in
\* order, for every URL the searches returned.
MainEnded == loop.at \in {"done", "summary", "rejected"}
AnsweredColumns(k, table) ==
  LET columns == extractListFromResponse(TheOutcome(ColsOutcomes(table)).body)
  IN  {Qualified(dbs[k].name, table, columns[i]) : i \in 1..Len(columns)}
C20_PartialResults ==
  /\ pc # "threw"
  /\ pc = "returned" =>
       \A k \in 1..Len(dbs) :
         \A table \in SeqElems(result.tables) \ transport.lost :
           AnsweredColumns(k, table) \subseteq SeqElems(result.columns)

SearchGaveUp == loop.search.failed = DEFAULT_CONFIG.maxRetries
C22_BoundedRetry ==
  /\ [](/\ loop.search.failed <= DEFAULT_CONFIG.maxRetries
        /\ SearchGaveUp => (loop.search.st = "off" /\ loop.urls = <<>>))
  /\ (loop.at = "search") ~> (loop.at = "wait")
  /\ \A d \in 1..NumDorks :
       (SearchGaveUp /\ loop.dork = d) ~> (loop.dork = d + 1 \/ loop.at = "summary")
\* the second dork is up after three rate-limit answers ended the search of
\* the first
C22_Witness ==
  /\ loop.dork = 2
  /\ loop.at = "dork"
  /\ SearchGaveUp
  /\ loop.search.waited = <<2, 2, 2>>

\* C23: for a string that is not a parseable URL, testSQLInjection raises an
\* error to its caller and returns no result; no probe has been sent (no
\* stage has a request or a delay under way, no result field was filled) and
\* no result file has been written or is being written.
NothingSent ==
  /\ cursor = NoCursor
  /\ columnCount = NoCount
  /\ sys = NoCursor
  /\ schema = NoCursor
  /\ dbs = <<>>
  /\ dump = NoDump
  /\ schemaSeen = {}
  /\ probes = <<>>
  /\ result = NewResult
C23_InvalidUrlRejected ==
  ~target.valid => /\ pc \in {"idle", "threw"}
                   /\ NothingSent
                   /\ saves = {}
C23_Witness == ~target.valid /\ pc = "threw" /\ transport.detect # {}

\* C24: every gate operation that changes the tested set, a domain's paths
\* or last test time, or the vulnerable index hands a snapshot of the new
\* state to the state-file write in the same step; the commit of a malformed
\* URL and the cooldown reset inside the admission query are such operations.
MemoryChanges ==
  \/ testedUrls' # testedUrls
  \/ seenDomains' # seenDomains
  \/ lastTestedTime' # lastTestedTime
  \/ vulnerableUrls' # vulnerableUrls
WriteStarted ==
  /\ writes' = Append(writes, stateFile')
  /\ stateFile' = Snapshot(testedUrls', vulnerableUrls', seenDomains', lastTestedTime')
C24_PersistedOnMutation == [][MemoryChanges => WriteStarted]_vars

Count(seq, x) == Cardinality({k \in 1..Len(seq) : seq[k] = x})
Discovered(url) ==
  isValidTestUrl(url) /\ NormalizeUrl(url) \notin loop.search.before
ListDone == loop.at \in {"wait", "done", "summary"} /\ loop.search.st = "off"
C26_DiscoveredTested ==
  ListDone =>
    \A k \in 1..Len(loop.urls) :
      Discovered(loop.urls[k]) => Count(loop.tested, NormalizeUrl(loop.urls[k])) = 1

\* C27: detection requests are answered in catalog order; a response that
\* matches the signature pattern (sql, error or syntax, in any case) ends the
\* detection in that step, so it is the last detection request of the call
\* and the first match, and the evidence recorded is the payload that
\* request carried; a result is vulnerable only on such a match, and an
\* unmatched result of a target with parameters is returned only after every
\* payload of the catalog has been sent.
Signature == {Str_sql, Str_error, Str_syntax}
MatchesSignature(o) ==
  o.ok /\ \E word \in Signature : Contains(toLowerCase(o.body), word)
Evidence(i) == sanitizePayload(DETECTION_PAYLOADS[i])
C27_FirstMatchStops ==
  /\ \A k \in 1..(Len(probes) - 1) : probes[k].i <= probes[k + 1].i
  /\ \A k \in 1..Len(probes) :
       MatchesSignature(probes[k].o) =>
         /\ k = Len(probes)
         /\ pc # "detect"
         /\ result.vulnerable
         /\ result.successfulPayloads # <<>>
         /\ result.successfulPayloads[1] = Evidence(probes[k].i)
  /\ result.vulnerable =>
       probes # <<>> /\ MatchesSignature(probes[Len(probes)].o)
  /\ (pc = "returned" /\ ~result.vulnerable /\ target.params >= 1) =>
       \A i \in 1..NumDetectionPayloads : \E k \in 1..Len(probes) : probes[k].i = i
\* the second payload matched on the word "error" after the first got a clean
\* answer for every parameter
C27_Witness ==
  /\ target.params = MaxParams
  /\ Len(probes) = MaxParams + 1
  /\ probes[Len(probes)].i = 2
  /\ probes[Len(probes)].o = Response(BodyError)
  /\ result.successfulPayloads[1] = Evidence(2)
  /\ pc = "columns"

\* C28: a detection request that fails at transport level is followed by the
\* next payload of the catalog, never by the same payload again; in one call
\* no (payload, parameter) request is sent twice, and the requests sent number
\* at most payloads x parameters.
Request(i, j) == <<i, j>>
DetectionInFlight ==
  IF pc = "detect" /\ cursor.wait = "req"
    THEN <<Request(cursor.i, cursor.j)>> ELSE <<>>
DetectionSent ==
  [k \in 1..Len(probes) |-> Request(probes[k].i, probes[k].j)] \o DetectionInFlight
C28_NoRetry ==
  /\ NoRepeat(DetectionSent)
  /\ Len(DetectionSent) <= NumDetectionPayloads * target.params
  /\ \A k \in 1..Len(probes) :
       ~probes[k].o.ok =>
         IF k < Len(DetectionSent)
           THEN DetectionSent[k + 1] = Request(probes[k].i + 1, 1)
           ELSE pc = "returned" /\ probes[k].i = NumDetectionPayloads
\* the request of the first payload failed for the first of two parameters
\* and the second payload is out for that parameter
C28_Witness ==
  /\ target.params = MaxParams
  /\ Len(probes) = 1
  /\ ~probes[1].o.ok
  /\ DetectionInFlight = <<Request(2, 1)>>

\* C29: a column-discovery probe is out only after a detection response
\* matched; a system-info, schema, table-list, column-list or dump probe is
\* out only when column discovery returned a count above zero; a result file
\* is being written only when the dump stage has resolved, with no dump probe
\* left; and a call in which no detection response matched returns an
\* untouched result: vulnerable = false and every collection empty.
ColumnInFlight == pc = "columns" /\ cursor.wait = "req"
ExtractionInFlight ==
  \/ sys.wait = "req"
  \/ schema.wait = "req"
  \/ StructureInFlight > 0
  \/ DumpInFlight > 0
DetectionMatched ==
  probes # <<>> /\ MatchesSignature(probes[Len(probes)].o)
C29_PipelineOrder ==
  /\ ColumnInFlight => DetectionMatched /\ result.vulnerable
  /\ ExtractionInFlight => columnCount > 0
  /\ (saves # {} \/ pc = "save") => (dump.st = "done" /\ DumpInFlight = 0)
  /\ (pc = "returned" /\ ~DetectionMatched) => result = NewResult
\* both result files are being written after a run in which the second
\* detection request matched and a table was dumped
C29_Witness ==
  /\ saves = {"json", "sql"}
  /\ Len(probes) >= 2
  /\ columnCount > 0
  /\ dump.sent # {}
  /\ DOMAIN result.tableData # {}

\* C30: a table for which the result records no column (no entry
\* database.table.column) has no dump request sent for it and gets no
\* tableData entry; the keys of tableData are tables of the result.
ColumnOf(col, table) ==
  \E db \in SeqElems(result.databases) :
    IsPrefix(db \o <<".">> \o table \o <<".">>, col)
HasColumns(table) ==
  \E i \in 1..Len(result.columns) : ColumnOf(result.columns[i], table)
C30_TablesWithoutColumnsSkipped ==
  /\ \A task \in dump.sent : HasColumns(task.table)
  /\ \A table \in DOMAIN result.tableData : HasColumns(table)
  /\ DOMAIN result.tableData \subseteq SeqElems(result.tables)

\* C31: the dump probe built for a table concatenates the columns recorded
\* for that table (entries database.table.column), in the order recorded, and
\* no column recorded for another table, also when the table's name occurs
\* inside another table's name. Columns recorded after the probe was built
\* are allowed for: the probe's columns are a prefix of the table's own.
OwnColumns(table) ==
  LET Own(col) == ColumnOf(col, table)
      own == SelectSeq(result.columns, Own)
  IN  [i \in 1..Len(own) |-> LastSegment(own[i])]
C31_DumpOwnColumns ==
  \A task \in dump.sent : IsPrefix(task.cols, OwnColumns(task.table))

\* C32: an admission query that rejects (URL already tested, or domain full
\* inside its cooldown window) leaves the tested set, every domain's paths
\* and last test time, and the vulnerable index as they were; and no
\* admission query, whatever it answers, changes the tested set or the
\* vulnerable index.
AdmitAnswered == ret'.op = "isUrlTested"
C32_RejectedAdmitChangesNothing ==
  [][AdmitAnswered =>
       /\ testedUrls' = testedUrls
       /\ vulnerableUrls' = vulnerableUrls
       /\ ret'.value => (seenDomains' = seenDomains /\ lastTestedTime' = lastTestedTime)]_vars
\* a rejection by the rate limit: a.com is full and inside its cooldown, and
\* the tested set holds no URL of the second path
C32_Witness ==
  /\ ret.op = "isUrlTested"
  /\ ret.value
  /\ "a.com" \in DOMAIN seenDomains
  /\ DomainFull(PathsOf("a.com"))
  /\ InCooldown("a.com")
  /\ DOMAIN vulnerableUrls # {}
  /\ Cardinality(testedUrls) < Cardinality(Urls)

\* C33: cleanupOldEntries removes the paths and the last test time of exactly
\* the domains last tested more than cooldownPeriod ago, leaves the other
\* domains' entries, the tested set and the vulnerable index as they were,
\* and every URL committed before is still rejected by the admission query.
Expired(d) == lastTestedTime[d] + config.cooldownPeriod < now
CleanupStep == ret'.op = "cleanupOldEntries" /\ now' = now
C33_CleanupFrame ==
  [][CleanupStep =>
       /\ testedUrls' = testedUrls
       /\ vulnerableUrls' = vulnerableUrls
       /\ DOMAIN lastTestedTime' = {d \in DOMAIN lastTestedTime : ~Expired(d)}
       /\ DOMAIN seenDomains' =
            {d \in DOMAIN seenDomains : ~(d \in DOMAIN lastTestedTime /\ Expired(d))}
       /\ \A d \in DOMAIN lastTestedTime' : lastTestedTime'[d] = lastTestedTime[d]
       /\ \A d \in DOMAIN seenDomains' : seenDomains'[d] = seenDomains[d]
       /\ \A url \in Urls :
            NormalizeUrl(url) \in committed => IsUrlTestedResult(url)']_vars
\* a cleanup has removed one domain and kept another, with URLs of both
\* committed before
C33_Witness ==
  /\ ret.op = "cleanupOldEntries"
  /\ DOMAIN seenDomains # {}
  /\ \E u \in testedUrls : u.ok /\ u.host \notin DOMAIN seenDomains
  /\ \E u \in testedUrls : u.host \in DOMAIN seenDomains


\* C34: rehydration does not lose commits: once the load has completed, every
\* URL committed since construction is in testedUrls, including those
\* committed while the load was still in flight.
C34_RehydrationKeepsCommits ==
  ~loading => committed \subseteq testedUrls


\* C35: the persisted snapshot converges to the latest state: once every
\* pending write has completed, the state file holds the snapshot of the most
\* recent mutation, in whatever order the writes completed.
C35_SnapshotConverges ==
  (writes = <<>> /\ disk.written) => disk = JSONstringify(Memory)


\* C36: the domain tables stay aligned: in every state reachable by admit,
\* commit, recordSuccess and cleanupOldEntries from an empty store, the domains
\* with a testedPaths entry are the domains with a lastTestedAt entry, and
\* getStats reports no more unique domains than tested URLs.
TablesAligned == DOMAIN seenDomains = DOMAIN lastTestedTime
C36_DomainTablesAligned ==
  /\ TablesAligned
  /\ Stats.uniqueDomains <= Stats.totalTested
  /\ ret.op = "getStats" => ret.stats.uniqueDomains <= ret.stats.totalTested
\* getStats has answered after a cleanup dropped one domain and kept another
C36_Witness ==
  /\ ret.op = "getStats"
  /\ ret.stats.uniqueDomains = 1
  /\ ret.stats.totalTested > 1
  /\ \E u \in testedUrls : u.ok /\ u.host \notin DOMAIN seenDomains
  /\ \E u \in testedUrls : u.ok /\ u.host \in DOMAIN lastTestedTime


\* C37: the evidence matches the verdict: a returned result is vulnerable
\* exactly when successfulPayloads is non-empty, and then it holds one
\* payload only, the one sent in the request whose response matched.
Returned == pc = "returned"
Matched == {k \in 1..Len(probes) : MatchesSignature(probes[k].o)}
C37_EvidenceMatchesVerdict ==
  Returned =>
    /\ result.vulnerable <=> result.successfulPayloads # <<>>
    /\ IF Matched = {} THEN result.successfulPayloads = <<>>
       ELSE \E k \in Matched :
              /\ Matched = {k}
              /\ result.successfulPayloads = <<Evidence(probes[k].i)>>
\* a vulnerable result came back whose evidence is the second payload, the
\* first having got a clean answer
C37_Witness ==
  /\ Returned
  /\ result.vulnerable
  /\ Len(probes) > 1
  /\ result.successfulPayloads = <<Evidence(2)>>
  /\ Evidence(2) # DETECTION_PAYLOADS[2]


\* C38: for a well-formed URL without query parameters testSQLInjection
\* sends no request at all, in any stage, and returns a result with
\* vulnerable = false and every collection empty.
NoParameters == target.valid /\ target.params = 0
C38_NoParametersNoRequest ==
  NoParameters =>
    /\ pc \in {"idle", "detect", "returned"}
    /\ cursor.wait # "req"
    /\ probes = <<>>
    /\ columnCount = NoCount
    /\ sys = NoCursor
    /\ schema = NoCursor
    /\ dbs = <<>>
    /\ dump = NoDump
    /\ saves = {}
    /\ result = NewResult
\* the call on such a URL has returned
C38_Witness ==
  /\ NoParameters
  /\ Returned
  /\ ~result.vulnerable


\* C39: the snapshot round trip: a fresh store that loads the snapshot
\* saveState wrote of a gate state holds the same testedUrls, vulnerableUrls
\* (payloads in the same order), seenDomains and lastTestedTime, and
\* isUrlTested answers every URL as it did before.
RestartStep ==
  /\ writes = <<>>
  /\ disk.written
  /\ ret'.op = "new"
  /\ now' = now
SnapshotCurrent ==
  /\ disk.json
  /\ disk.testedUrls = Val(testedUrls)
  /\ disk.vulnerableUrls = Val(vulnerableUrls)
  /\ disk.seenDomains = Val(seenDomains)
  /\ disk.lastTestedTime = Val(lastTestedTime)
AdmitAnswers == [url \in Urls |-> IsUrlTestedResult(url)]
====
